---- MODULE Spec2Model ----
(***************************************************************************)
(* Model of the MCP server testing core of mcp-client-cli:                 *)
(*   - MCPServerTester (src/src/mcp_client_cli/testing/mcp_tester.py)      *)
(*   - MCPRemediationEngine (src/src/mcp_client_cli/testing/remediation.py)*)
(*                                                                         *)
(* Conventions.                                                            *)
(*  - A name (server name, test name) is a sequence of tokens that the     *)
(*    program joins with "_": <<"db", "main">> is the string "db_main".    *)
(*    The empty sequence is the empty string, which Python treats like     *)
(*    None in `if server_name:`.                                           *)
(*  - A confidence score is kept in hundredths: 95 is 0.95.                *)
(*  - The program runs on one event loop; an operation is suspended only   *)
(*    while it awaits the Server Connector (McpToolkit).  `pending` is the *)
(*    awaited call, `stack` the chain of coroutines waiting for it.        *)
(*  - MCPServerTester._test_results, the copy of every returned suite that  *)
(*    only get_test_results reads, is not part of the state.               *)
(*  - The Server Connector is external: when awaited it returns, raises an *)
(*    exception (class Exception, never TimeoutError), or stops answering. *)
(*    TimeoutError is raised only by an expired asyncio.timeout block.     *)
(*  - The scores of the remediation engine are kept in thousandths (850 is *)
(*    0.85), so that the scaled score of a partial success is an integer.  *)
(*  - The tester and the remediation engine share no state.  Spec is the   *)
(*    tester with an idle engine, SpecRemediation the engine alone.        *)
(***************************************************************************)
EXTENDS Integers, Sequences, FiniteSets, TLC

VARIABLES
    config,           \* MCPServerTester.config (AppConfig), fixed after construction
    active_toolkits,  \* MCPServerTester._active_toolkits: server name -> toolkit
    toolkits,         \* the McpToolkit objects the tester refers to, by identity
    open_sessions,    \* identities of the toolkits whose session is open
    stack,            \* suspended coroutines of the tester, innermost last
    pending,          \* the Server Connector call being awaited, or NoCall
    ret,              \* completion being handed to the coroutine on top of stack
    returned,         \* completion of the last finished public operation
    remediation_strategies,  \* MCPRemediationEngine._remediation_strategies
    remediation_history,     \* MCPRemediationEngine._remediation_history
    retry_configs,           \* MCPRemediationEngine._retry_configs
    rem,                     \* the remediate_issue coroutine in progress
    rem_returned,            \* result of the last finished remediate_issue
    probes,                  \* results of the probes of the last retry strategy entered
                             \* by the remediate_issue in progress or last finished
    sleeps,                  \* the delays that strategy slept, in microseconds
    probes_ok,               \* no connectivity probe of the last remediate_issue entered has failed
    active_remediations,     \* MCPRemediationEngine._active_remediations
    health_metrics,          \* MCPIssueDetector._health_metrics: server name -> HealthMetrics
    issue_history,           \* MCPIssueDetector._issue_history
    now,                     \* int(time.time()), the clock in whole seconds
    detected,                \* the list the last analyze_test_failures returned
    monitored,               \* what the last monitor_server_health met
    perf_config,             \* MCPPerformanceTester.config (PerformanceTestConfig)
    concurrency,             \* the test_concurrent_connections coroutine in progress
    concurrency_result,      \* the TestResult the last test_concurrent_connections returned
    load,                    \* the _run_load_test in progress: its metrics and its workers
    monitor,                 \* the ResourceMonitor: its fields, its sampler task, its stop()
    resource,                \* the test_resource_usage in progress, and what it returned
    calc                     \* the metrics, grade and memory trend last computed

testerVars == <<config, active_toolkits, toolkits, open_sessions,
                stack, pending, ret, returned>>
remVars == <<remediation_strategies, remediation_history, retry_configs, rem,
             rem_returned, probes, sleeps, probes_ok, active_remediations>>
detVars == <<health_metrics, issue_history, now, detected, monitored>>
resVars == <<monitor, resource>>
perfVars == <<perf_config, concurrency, concurrency_result, load, monitor, resource, calc>>
vars == <<config, active_toolkits, toolkits, open_sessions, stack,
          pending, ret, returned, remediation_strategies, remediation_history, retry_configs,
          rem, rem_returned, probes, sleeps, probes_ok, active_remediations,
          health_metrics,
          issue_history, now, detected, monitored, perf_config, concurrency,
          concurrency_result, load, monitor, resource, calc>>

----------------------------------------------------------------------------
(* Bounds of the model *)

\* McpToolkit objects that may exist at a time (referred to, or left open)
MaxToolkits == 2

----------------------------------------------------------------------------
(* Values *)

None == "None"

S1 == <<"files">>
S2 == <<"db", "main">>
Ghost == <<"ghost">>

\* iteration order of the config's mcp_servers dict
ServerOrder == <<S1, S2>>

ToolNames == {"t1", "t2"}

\* the tool lists a capability listing may yield
ToolLists == {<<>>, <<"t1">>, <<"t2", "t1">>}

Min(a, b) == IF a <= b THEN a ELSE b

RECURSIVE Power(_, _)
Power(base, exponent) ==
    IF exponent = 0 THEN 1 ELSE base * Power(base, exponent - 1)

Last(s) == s[Len(s)]
ButLast(s) == SubSeq(s, 1, Len(s) - 1)

RECURSIVE SeqSum(_)
SeqSum(s) == IF s = <<>> THEN 0 ELSE Head(s) + SeqSum(Tail(s))

RECURSIVE SelectSeqIn(_, _)
SelectSeqIn(s, set) ==
    IF s = <<>> THEN <<>>
    ELSE IF Head(s) \in set THEN <<Head(s)>> \o SelectSeqIn(Tail(s), set)
    ELSE SelectSeqIn(Tail(s), set)

----------------------------------------------------------------------------
(* TestStatus, TestResult, completions *)

TestStatus == {"pending", "running", "passed", "failed", "skipped", "error"}

\* an empty dict (the default of TestResult.details)
EmptyDict == [k \in {} |-> None]

\* dict.get(key, default)
Get(d, key, default) == IF key \in DOMAIN d THEN d[key] ELSE default

TestResult(name, status, confidence, error_info, details) ==
    [test_name |-> name, status |-> status, confidence_score |-> confidence,
     error_info |-> error_info, details |-> details]

\* how a coroutine ends: it returns a value or an exception leaves it
Return(v) == [kind |-> "return", value |-> v]
Raise(e) == [kind |-> "raise", value |-> e]

\* an awaited connector call: what is called on which toolkit, the deadline of
\* the asyncio.timeout block around the await (0: none), and how the await has
\* ended: "waiting" (not yet), "hung" (the connector will never answer), "ok"
\* with the call's result, or the class of the exception raised into the await
Call(call, toolkit, deadline) ==
    [call |-> call, toolkit |-> toolkit, deadline |-> deadline,
     outcome |-> "waiting", result |-> <<>>]

NoCall == [call |-> "none", toolkit |-> 0, deadline |-> 0,
           outcome |-> "none", result |-> <<>>]
NoRet == [kind |-> "none", value |-> None]
NoReturned == [op |-> "none", server |-> <<>>, completion |-> NoRet]

\* no retry configuration has been read
NoRetryConfig ==
    [max_attempts |-> 0, base_delay |-> 0, max_delay |-> 0, exponential_base |-> 0,
     jitter |-> FALSE]

\* no remediate_issue is in progress; none has returned
NoRemediation ==
    [issue |-> [issue_id |-> None, issue_type |-> None, server_name |-> <<>>,
                error_message |-> None],
     actions |-> <<>>, i |-> 0, pc |-> "none", attempt |-> 0, max_attempts |-> 0,
     retry_config |-> NoRetryConfig]
NoResult ==
    [action_id |-> "none", issue_id |-> None, status |-> "pending",
     confidence_score |-> 0, details |-> EmptyDict, error_info |-> None,
     follow_up_actions |-> <<>>]

\* no monitor_server_health has been made
\* no call of analyze_test_failures has returned
NoAnalysis == [results |-> <<>>, candidates |-> <<>>, issues |-> <<>>, time |-> 0]

NoProbe == [server_name |-> <<>>, outcome |-> "none", response_time |-> 0]

\* exception classes that `except Exception` catches
ExceptionClasses == {"Exception", "TimeoutError"}

TimeoutInfoConnect == "Connection timed out after 10 seconds"
TimeoutInfoExecute == "Tool execution timed out after 30 seconds"
Traceback == "traceback.format_exc()"

----------------------------------------------------------------------------
(* AppConfig *)

LLMConfigs == {[model |-> "gpt-4o", provider |-> "openai"],
               [model |-> "", provider |-> "openai"],
               [model |-> "gpt-4o", provider |-> ""]}

SystemPrompts == {"Test", " ", ""}

ServerConfigs == {[command |-> "python", enabled |-> TRUE],
                  [command |-> "", enabled |-> TRUE],
                  [command |-> "python", enabled |-> FALSE]}

\* the mcp_servers dicts considered: none configured, or S1 and S2 configured
ServerDicts ==
    {[s \in {} |-> None]}
    \cup {d \in [{S1, S2} -> ServerConfigs] : d[S1].enabled /\ d[S2].command # ""}

\* configurations handed to validate_configuration
Configs == [llm : LLMConfigs, system_prompt : SystemPrompts, mcp_servers : ServerDicts]

\* configurations the tester is constructed with
TesterConfigs ==
    {c \in Configs : c.llm.model = "gpt-4o" /\ c.llm.provider = "openai"
                     /\ c.system_prompt = "Test"}

\* str.strip() on the prompts considered
Strip(s) == IF s = " " THEN "" ELSE s

\* the keys of mcp_servers in dict order
ConfiguredOrder(cfg) == SelectSeqIn(ServerOrder, DOMAIN cfg.mcp_servers)

get_enabled_servers(cfg) ==
    SelectSeqIn(ServerOrder, {s \in DOMAIN cfg.mcp_servers : cfg.mcp_servers[s].enabled})

RECURSIVE ServerIssues(_, _)
ServerIssues(cfg, names) ==
    IF names = <<>> THEN <<>>
    ELSE (IF cfg.mcp_servers[Head(names)].command = ""
          THEN <<<<"no command", Head(names)>>>> ELSE <<>>)
         \o ServerIssues(cfg, Tail(names))

ConfigIssues(cfg) ==
    (IF cfg.llm.model = "" THEN <<<<"LLM model not specified">>>> ELSE <<>>)
    \o (IF cfg.llm.provider = "" THEN <<<<"LLM provider not specified">>>> ELSE <<>>)
    \o (IF cfg.system_prompt = "" \/ Strip(cfg.system_prompt) = ""
        THEN <<<<"System prompt is empty">>>> ELSE <<>>)
    \o (IF DOMAIN cfg.mcp_servers = {}
        THEN <<<<"No MCP servers configured">>>>
        ELSE ServerIssues(cfg, ConfiguredOrder(cfg)))

ConfigTestName == <<"configuration", "validation">>

validate_configuration(cfg) ==
    LET issues == ConfigIssues(cfg) IN
    IF issues # <<>>
    THEN Return(TestResult(ConfigTestName, "failed", 95, None, [issues |-> issues]))
    ELSE Return(TestResult(ConfigTestName, "passed", 90, None,
                           [server_count |-> Cardinality(DOMAIN cfg.mcp_servers),
                            enabled_servers |-> Len(get_enabled_servers(cfg))]))

----------------------------------------------------------------------------
(* The tester's coroutines.  M is the tester's state as one record; every   *)
(* operator below maps a state record to the next one.                     *)

M == [active_toolkits |-> active_toolkits,
      toolkits |-> toolkits, open_sessions |-> open_sessions, stack |-> stack,
      pending |-> pending, ret |-> ret, returned |-> returned]

\* the toolkits the tester can still reach: the cached ones and the awaited one
Referenced(m) ==
    {m.active_toolkits[s] : s \in DOMAIN m.active_toolkits}
    \cup (IF m.pending.call = "none" THEN {} ELSE {m.pending.toolkit})

\* identities in use: a reachable toolkit, or one whose session is still open
UsedToolkits(m) == DOMAIN m.toolkits \cup m.open_sessions

FreeToolkits(m) == (1..MaxToolkits) \ UsedToolkits(m)

\* the identity of the next McpToolkit(...) object
NewToolkit(m) == CHOOSE h \in FreeToolkits(m) : \A g \in FreeToolkits(m) : h <= g

\* the next state is m; toolkit objects nothing refers to any more are dropped
Set(m) ==
    /\ active_toolkits' = m.active_toolkits
    /\ toolkits' = [h \in DOMAIN m.toolkits \cap Referenced(m) |-> m.toolkits[h]]
    /\ open_sessions' = m.open_sessions
    /\ stack' = m.stack
    /\ pending' = m.pending
    /\ ret' = m.ret
    /\ returned' = m.returned

\* d[k] = v on a dict
DictSet(d, k, v) == [x \in DOMAIN d \cup {k} |-> IF x = k THEN v ELSE d[x]]

\* toolkit = self._active_toolkits.get(server_name) is a toolkit (`if toolkit`)
HasToolkit(cache, s) == s \in DOMAIN cache

\* a coroutine: the operation, its arguments and where it is suspended
Frame(op, server, tool, pc) == [op |-> op, server |-> server, tool |-> tool, pc |-> pc]

Idle == stack = <<>> /\ pending = NoCall /\ ret = NoRet

\* the state in which a public operation is entered: nothing has returned yet
Called == [M EXCEPT !.returned = NoReturned]

\* the coroutine on top of the stack is suspended in an await of the connector
Awaiting(op, call) ==
    /\ stack # <<>>
    /\ Last(stack).op = op
    /\ pending.call = call

\* the await of the coroutine on top of the stack has ended
AwaitEnded(op, call) ==
    /\ Awaiting(op, call)
    /\ pending.outcome \in {"ok"} \cup ExceptionClasses

\* a coroutine called by the one on top of the stack has just ended
Resumed(op, pc) ==
    /\ stack # <<>>
    /\ Last(stack).op = op
    /\ Last(stack).pc = pc
    /\ pending = NoCall
    /\ ret # NoRet

\* coroutine f, whose callers are `base`, ends with completion c
Finish(m, base, f, c) ==
    IF base = <<>>
    THEN [m EXCEPT !.stack = base, !.pending = NoCall, !.ret = NoRet,
                   !.returned = [op |-> f.op, server |-> f.server, completion |-> c]]
    ELSE [m EXCEPT !.stack = base, !.pending = NoCall, !.ret = c]

\* `await <call>` under asyncio.timeout(deadline); deadline 0 is a bare await
Await(m, stk, call, toolkit, deadline) ==
    [m EXCEPT !.stack = stk, !.ret = NoRet, !.pending = Call(call, toolkit, deadline)]

----------------------------------------------------------------------------
(* test_server_connectivity *)

ConnectTimeout == 10

ConnectivityTestName(s) == s \o <<"connectivity">>

\* test_server_connectivity with `except Exception` placed before the
\* `except asyncio.TimeoutError` clause
test_server_connectivity_GenericFirst(s, outcome) ==
    CASE outcome = "ok" ->
            Return(TestResult(s \o <<"connectivity">>, "passed", 95, None, EmptyDict))
      [] outcome \in ExceptionClasses ->
            Return(TestResult(s \o <<"connectivity">>, "error", 85, Traceback, EmptyDict))
      [] OTHER -> Raise(outcome)

\* the result of test_server_connectivity for each way the session start ends
test_server_connectivity(s, outcome) ==
    CASE outcome = "ok" ->
            Return(TestResult(ConnectivityTestName(s), "passed", 95, None, EmptyDict))
      [] outcome = "TimeoutError" ->
            Return(TestResult(ConnectivityTestName(s), "failed", 90,
                              TimeoutInfoConnect, EmptyDict))
      [] outcome \in ExceptionClasses \ {"TimeoutError"} ->
            Return(TestResult(ConnectivityTestName(s), "error", 85, Traceback, EmptyDict))
      [] OTHER -> Raise(outcome)

\* the toolkit stored before the session start is awaited
StoreToolkit_BeforeStart(cache, s, toolkit, outcome) == DictSet(cache, s, toolkit)

\* self._active_toolkits[server_name] = toolkit, reached only when the session started
StoreToolkit(cache, s, toolkit, outcome) ==
    IF outcome = "ok" THEN DictSet(cache, s, toolkit) ELSE cache

\* entry of test_server_connectivity up to its await: a new McpToolkit is made
\* and its session start is awaited under the 10 s deadline
EnterConnectivity(m, base, s) ==
    LET toolkit == NewToolkit(m)
    IN Await([m EXCEPT !.toolkits = DictSet(@, toolkit, [name |-> s, tools |-> <<>>])],
             Append(base, Frame("connectivity", s, None, "start_session")),
             "start_session", toolkit, ConnectTimeout)

\* test_server_connectivity from the end of its await to its return
ResumeConnectivity(m) ==
    LET f == Last(m.stack)
        h == m.pending.toolkit
        outcome == m.pending.outcome
        m1 == [m EXCEPT
                 !.open_sessions = IF outcome = "ok" THEN @ \cup {h} ELSE @,
                 !.active_toolkits = StoreToolkit(@, f.server, h, outcome)]
    IN Finish(m1, ButLast(m.stack), f, test_server_connectivity(f.server, outcome))

----------------------------------------------------------------------------
(* test_tool_discovery *)

InitializeForced == "initialize(force_refresh=True)"

DiscoveryTestName(s) == s \o <<"tool", "discovery">>

DiscoverySkipped(s) == TestResult(DiscoveryTestName(s), "skipped", 95, None, EmptyDict)

\* the confidence with the comparison off by one
DiscoveryConfidence_OffByOne(tools) == IF Len(tools) > 1 THEN 90 ELSE 75

\* confidence of a completed discovery that found `tools`
DiscoveryConfidence(tools) == IF Len(tools) > 0 THEN 90 ELSE 75

\* test_tool_discovery without its `except Exception` clause
test_tool_discovery_NoExcept(s, outcome, tools) ==
    IF outcome = "ok"
    THEN Return(TestResult(s \o <<"tool", "discovery">>, "passed",
                           IF Len(tools) > 0 THEN 90 ELSE 75, None,
                           [tool_count |-> Len(tools), tool_names |-> tools]))
    ELSE Raise(outcome)

\* the result of test_tool_discovery once toolkit.initialize has ended
test_tool_discovery(s, outcome, tools) ==
    CASE outcome = "ok" ->
            Return(TestResult(DiscoveryTestName(s), "passed", DiscoveryConfidence(tools),
                              None, [tool_count |-> Len(tools), tool_names |-> tools]))
      [] outcome \in ExceptionClasses ->
            Return(TestResult(DiscoveryTestName(s), "error", 85, Traceback, EmptyDict))
      [] OTHER -> Raise(outcome)

\* await toolkit.initialize(force_refresh=True): no deadline surrounds it
AwaitInitialize(m, stk, toolkit) == Await(m, stk, InitializeForced, toolkit, 0)

\* the coroutine of test_tool_discovery; conn_result is the status of the
\* connectivity check it ran itself, None when it ran none
DiscoveryFrame(s, pc) ==
    [op |-> "discovery", server |-> s, tool |-> None, pc |-> pc, conn_result |-> None]

\* entry of test_tool_discovery up to its first await: with no cached toolkit
\* it calls test_server_connectivity itself, else it lists the capabilities
EnterDiscovery(m, base, s) ==
    IF ~HasToolkit(m.active_toolkits, s)
    THEN EnterConnectivity(m, Append(base, DiscoveryFrame(s, "connectivity")), s)
    ELSE AwaitInitialize(m, Append(base, DiscoveryFrame(s, "initialize")),
                         m.active_toolkits[s])

\* test_tool_discovery after the connectivity check it called has ended
DiscoveryAfterConnectivity(m) ==
    LET f == Last(m.stack)
        base == ButLast(m.stack)
        conn == m.ret
    IN IF conn.kind = "raise"
       THEN Finish(m, base, f, test_tool_discovery(f.server, conn.value, <<>>))
       ELSE IF conn.value.status # "passed"
       THEN Finish(m, base, f, Return(DiscoverySkipped(f.server)))
       ELSE AwaitInitialize(m, Append(base, [f EXCEPT !.pc = "initialize",
                                                      !.conn_result = conn.value.status]),
                            m.active_toolkits[f.server])

\* test_tool_discovery from the end of toolkit.initialize to its return
ResumeDiscovery(m) ==
    LET f == Last(m.stack)
        h == m.pending.toolkit
        outcome == m.pending.outcome
        tools == m.pending.result
        m1 == IF outcome = "ok" THEN [m EXCEPT !.toolkits[h].tools = tools] ELSE m
    IN Finish(m1, ButLast(m.stack), f, test_tool_discovery(f.server, outcome, tools))

----------------------------------------------------------------------------
(* test_tool_execution *)

ExecuteTimeout == 30

ExecutionTestName(s, tool) == s \o <<tool, "execution">>

\* test_tool_execution with `except Exception` placed before the
\* `except asyncio.TimeoutError` clause
test_tool_execution_GenericFirst(s, tool, outcome) ==
    CASE outcome = "ok" ->
            Return(TestResult(s \o <<tool, "execution">>, "passed", 85, None, EmptyDict))
      [] outcome \in ExceptionClasses ->
            Return(TestResult(s \o <<tool, "execution">>, "error", 80, Traceback, EmptyDict))
      [] OTHER -> Raise(outcome)

\* the result of test_tool_execution once the tool call has ended
test_tool_execution(s, tool, outcome) ==
    CASE outcome = "ok" ->
            Return(TestResult(ExecutionTestName(s, tool), "passed", 85, None, EmptyDict))
      [] outcome = "TimeoutError" ->
            Return(TestResult(ExecutionTestName(s, tool), "failed", 90,
                              TimeoutInfoExecute, EmptyDict))
      [] outcome \in ExceptionClasses \ {"TimeoutError"} ->
            Return(TestResult(ExecutionTestName(s, tool), "error", 80, Traceback, EmptyDict))
      [] OTHER -> Raise(outcome)

\* next((tool for tool in tools if tool.name == tool_name), None)
FindTool(tools, tool) ==
    IF \E i \in 1..Len(tools) : tools[i] = tool THEN tool ELSE None

\* entry of test_tool_execution up to its await, or to its return when it
\* never reaches the await
EnterExecution(m, base, s, tool) ==
    LET f == Frame("execution", s, tool, "arun")
        toolkit == m.active_toolkits[s]
    IN IF ~HasToolkit(m.active_toolkits, s)
       THEN Finish(m, base, f,
                   Return(TestResult(ExecutionTestName(s, tool), "skipped", 95, None, EmptyDict)))
       ELSE IF FindTool(m.toolkits[toolkit].tools, tool) = None
       THEN Finish(m, base, f,
                   Return(TestResult(ExecutionTestName(s, tool), "failed", 90, None, EmptyDict)))
       ELSE Await(m, Append(base, f), "arun", toolkit, ExecuteTimeout)

\* test_tool_execution from the end of the tool call to its return
ResumeExecution(m) ==
    LET f == Last(m.stack)
        outcome == m.pending.outcome
    IN Finish(m, ButLast(m.stack), f, test_tool_execution(f.server, f.tool, outcome))

----------------------------------------------------------------------------
(* run_comprehensive_test_suite *)

CountStatus(rs, status) == Cardinality({i \in 1..Len(rs) : rs[i].status = status})

\* the mean of the results' confidence scores, kept as an exact fraction
MeanConfidence(rs) ==
    IF rs # <<>>
    THEN [num |-> SeqSum([i \in 1..Len(rs) |-> rs[i].confidence_score]), den |-> Len(rs)]
    ELSE [num |-> 0, den |-> 1]

\* the error results are counted with the failed ones
TestSuite_ErrorsAsFailed(name, rs) ==
    [server_name |-> name,
     total_tests |-> Len(rs),
     passed_tests |-> CountStatus(rs, "passed"),
     failed_tests |-> CountStatus(rs, "failed") + CountStatus(rs, "error"),
     error_tests |-> 0,
     skipped_tests |-> CountStatus(rs, "skipped"),
     overall_confidence |-> MeanConfidence(rs),
     results |-> rs]

TestSuite(name, rs) ==
    [server_name |-> name,
     total_tests |-> Len(rs),
     passed_tests |-> CountStatus(rs, "passed"),
     failed_tests |-> CountStatus(rs, "failed"),
     error_tests |-> CountStatus(rs, "error"),
     skipped_tests |-> CountStatus(rs, "skipped"),
     overall_confidence |-> MeanConfidence(rs),
     results |-> rs]

\* the servers a run covers: the named one if configured, all enabled ones
\* when no name is given
ServersToTest(cfg, name) ==
    IF name # <<>>
    THEN (IF name \in DOMAIN cfg.mcp_servers THEN <<name>> ELSE <<>>)
    ELSE get_enabled_servers(cfg)

\* run_comprehensive_test_suite giving up the remaining servers once a
\* server's connectivity check has not passed
SuiteDone_StopsAtFailure(m, f, rs) ==
    LET suite == TestSuite(f.name, rs)
        results == DictSet(f.results, f.name, suite)
    IN IF f.todo = <<>> \/ rs[2].status # "passed"
       THEN Finish(m, <<>>, f, Return(results))
       ELSE EnterConnectivity(m,
                <<[f EXCEPT !.name = Head(f.todo), !.todo = Tail(f.todo),
                            !.results = results, !.rs = <<f.config_result>>,
                            !.pc = "connectivity"]>>,
                Head(f.todo))

\* the suite of the current server is complete: it is put in the returned
\* dict, and the loop goes on with the next server or the run returns
SuiteDone(m, f, rs) ==
    LET suite == TestSuite(f.name, rs)
        results == DictSet(f.results, f.name, suite)
    IN IF f.todo = <<>>
       THEN Finish(m, <<>>, f, Return(results))
       ELSE EnterConnectivity(m,
                <<[f EXCEPT !.name = Head(f.todo), !.todo = Tail(f.todo),
                            !.results = results, !.rs = <<f.config_result>>,
                            !.pc = "connectivity"]>>,
                Head(f.todo))

\* entry of run_comprehensive_test_suite up to its first await
EnterRunSuite(m, cfg, name) ==
    LET validation == validate_configuration(cfg)
        servers == ServersToTest(cfg, name)
        f == [op |-> "run_suite", server |-> name, tool |-> None, pc |-> "connectivity",
              config_result |-> validation.value, todo |-> <<>>, name |-> <<>>,
              rs |-> <<>>, results |-> EmptyDict]
    IN IF validation.kind = "raise" THEN Finish(m, <<>>, f, validation)
       ELSE IF servers = <<>> THEN Finish(m, <<>>, f, Return(EmptyDict))
       ELSE EnterConnectivity(m,
                <<[f EXCEPT !.name = Head(servers), !.todo = Tail(servers),
                            !.rs = <<validation.value>>]>>,
                Head(servers))

\* run_comprehensive_test_suite going on to discovery whatever the
\* connectivity check returned
RunSuiteAfterConnectivity_NoGate(m) ==
    LET f == Last(m.stack)
        c == m.ret
    IN EnterDiscovery(m, <<[f EXCEPT !.rs = Append(f.rs, c.value), !.pc = "discovery"]>>,
                      f.name)

\* run_comprehensive_test_suite after the connectivity check of f.name
RunSuiteAfterConnectivity(m) ==
    LET f == Last(m.stack)
        c == m.ret
        rs == Append(f.rs, c.value)
    IN IF c.kind = "raise" THEN Finish(m, <<>>, f, c)
       ELSE IF c.value.status = "passed"
       THEN EnterDiscovery(m, <<[f EXCEPT !.rs = rs, !.pc = "discovery"]>>, f.name)
       ELSE SuiteDone(m, f, rs)

\* run_comprehensive_test_suite after the discovery check of f.name
RunSuiteAfterDiscovery(m) ==
    LET f == Last(m.stack)
        c == m.ret
        rs == Append(f.rs, c.value)
        tool_names == Get(c.value.details, "tool_names", <<>>)
    IN IF c.kind = "raise" THEN Finish(m, <<>>, f, c)
       ELSE IF /\ c.value.status = "passed"
               /\ Get(c.value.details, "tool_count", 0) > 0
               /\ tool_names # <<>>
       THEN EnterExecution(m, <<[f EXCEPT !.rs = rs, !.pc = "execution"]>>,
                           f.name, tool_names[1])
       ELSE SuiteDone(m, f, rs)

\* run_comprehensive_test_suite after the sample execution check of f.name
RunSuiteAfterExecution(m) ==
    LET f == Last(m.stack)
        c == m.ret
    IN IF c.kind = "raise" THEN Finish(m, <<>>, f, c)
       ELSE SuiteDone(m, f, Append(f.rs, c.value))

----------------------------------------------------------------------------
(* cleanup *)

\* self._active_toolkits.values(); the model lists them in ServerOrder
CachedToolkits(cache) ==
    LET names == SelectSeqIn(ServerOrder, DOMAIN cache)
    IN [i \in 1..Len(names) |-> cache[names[i]]]

\* the loop of cleanup from toolkit `todo[1]` on: close each, then clear the cache
CleanupLoop(m, todo) ==
    IF todo = <<>>
    THEN Finish([m EXCEPT !.active_toolkits = EmptyDict], <<>>,
                Frame("cleanup", <<>>, None, "close"), Return(None))
    ELSE Await(m, <<[Frame("cleanup", <<>>, None, "close") EXCEPT !.tool = Tail(todo)]>>,
               "close", Head(todo), 0)

EnterCleanup(m) == CleanupLoop(m, CachedToolkits(m.active_toolkits))

\* cleanup after one toolkit.close(): an exception of close is ignored; the
\* result of the call tells whether the session got closed
ResumeCleanup(m) ==
    LET h == m.pending.toolkit
        closed == m.pending.result = <<"closed">>
        m1 == [m EXCEPT !.open_sessions = IF closed THEN @ \ {h} ELSE @]
    IN CleanupLoop(m1, Last(m.stack).tool)

----------------------------------------------------------------------------
(* The tester: public operations called one at a time on one event loop,   *)
(* and the connector ending the awaited call.                              *)

ConfiguredServers == DOMAIN config.mcp_servers

CallConnectivity(s) ==
    /\ Idle
    /\ s \in ConfiguredServers
    /\ FreeToolkits(M) # {}
    /\ Set(EnterConnectivity(Called, <<>>, s))
    /\ UNCHANGED <<config, remVars, detVars, perfVars>>

CallDiscovery(s) ==
    /\ Idle
    /\ s \in ConfiguredServers
    /\ HasToolkit(active_toolkits, s) \/ FreeToolkits(M) # {}
    /\ Set(EnterDiscovery(Called, <<>>, s))
    /\ UNCHANGED <<config, remVars, detVars, perfVars>>

CallExecution(s, tool) ==
    /\ Idle
    /\ s \in ConfiguredServers
    /\ Set(EnterExecution(Called, <<>>, s, tool))
    /\ UNCHANGED <<config, remVars, detVars, perfVars>>

\* the configurations validate_configuration is called with: the tester's own
\* and those that differ from it in the LLM settings or the prompt
ValidatedConfigs == {c \in Configs : c.mcp_servers = config.mcp_servers}

CallValidateConfiguration(cfg) ==
    /\ Idle
    /\ Set(Finish(Called, <<>>, Frame("validate", <<>>, None, "done"),
                  validate_configuration(cfg)))
    /\ UNCHANGED <<config, remVars, detVars, perfVars>>

CallRunSuite(name) ==
    /\ Idle
    /\ Cardinality(FreeToolkits(M)) >= Len(ServersToTest(config, name))
    /\ Set(EnterRunSuite(Called, config, name))
    /\ UNCHANGED <<config, remVars, detVars, perfVars>>

CallCleanup ==
    /\ Idle
    /\ Set(EnterCleanup(Called))
    /\ UNCHANGED <<config, remVars, detVars, perfVars>>

\* what the awaited call yields when it returns normally
Results(call) ==
    CASE call = InitializeForced -> ToolLists
      [] call = "close" -> {<<"closed">>}
      [] OTHER -> {<<>>}

\* what is left behind when the awaited call raises: a close that raises may
\* or may not have closed the session
Leftovers(call) == IF call = "close" THEN {<<"closed">>, <<"open">>} ELSE {<<>>}

\* the connector completes the awaited call
ConnectorReturns ==
    /\ pending.outcome = "waiting"
    /\ \E r \in Results(pending.call) :
          pending' = [pending EXCEPT !.outcome = "ok", !.result = r]
    /\ UNCHANGED <<config, active_toolkits, toolkits, open_sessions,
                   stack, ret, returned, remVars, detVars, perfVars>>

\* the connector raises an exception into the awaited call
ConnectorRaises ==
    /\ pending.outcome = "waiting"
    /\ \E r \in Leftovers(pending.call) :
          pending' = [pending EXCEPT !.outcome = "Exception", !.result = r]
    /\ UNCHANGED <<config, active_toolkits, toolkits, open_sessions,
                   stack, ret, returned, remVars, detVars, perfVars>>

\* the connector stops answering the awaited call
ConnectorHangs ==
    /\ pending.outcome = "waiting"
    /\ pending' = [pending EXCEPT !.outcome = "hung"]
    /\ UNCHANGED <<config, active_toolkits, toolkits, open_sessions,
                   stack, ret, returned, remVars, detVars, perfVars>>

\* the deadline of the asyncio.timeout block around the await passes before
\* the call has ended: the call is cancelled and TimeoutError is raised
DeadlineExpires ==
    /\ pending.outcome \in {"waiting", "hung"}
    /\ pending.deadline > 0
    /\ pending' = [pending EXCEPT !.outcome = "TimeoutError"]
    /\ UNCHANGED <<config, active_toolkits, toolkits, open_sessions,
                   stack, ret, returned, remVars, detVars, perfVars>>

StartSessionEnds ==
    /\ AwaitEnded("connectivity", "start_session")
    /\ Set(ResumeConnectivity(M))
    /\ UNCHANGED <<config, remVars, detVars, perfVars>>

InitializeEnds ==
    /\ AwaitEnded("discovery", InitializeForced)
    /\ Set(ResumeDiscovery(M))
    /\ UNCHANGED <<config, remVars, detVars, perfVars>>

ToolCallEnds ==
    /\ AwaitEnded("execution", "arun")
    /\ Set(ResumeExecution(M))
    /\ UNCHANGED <<config, remVars, detVars, perfVars>>

CloseEnds ==
    /\ AwaitEnded("cleanup", "close")
    /\ Set(ResumeCleanup(M))
    /\ UNCHANGED <<config, remVars, detVars, perfVars>>

DiscoveryResumes ==
    /\ Resumed("discovery", "connectivity")
    /\ Set(DiscoveryAfterConnectivity(M))
    /\ UNCHANGED <<config, remVars, detVars, perfVars>>

RunSuiteResumesAfterConnectivity ==
    /\ Resumed("run_suite", "connectivity")
    /\ Set(RunSuiteAfterConnectivity(M))
    /\ UNCHANGED <<config, remVars, detVars, perfVars>>

RunSuiteResumesAfterDiscovery ==
    /\ Resumed("run_suite", "discovery")
    /\ Set(RunSuiteAfterDiscovery(M))
    /\ UNCHANGED <<config, remVars, detVars, perfVars>>

RunSuiteResumesAfterExecution ==
    /\ Resumed("run_suite", "execution")
    /\ Set(RunSuiteAfterExecution(M))
    /\ UNCHANGED <<config, remVars, detVars, perfVars>>

\* no performance test has been started
NoConcurrency == [pc |-> "none", connection_levels |-> <<>>, load_test_results |-> <<>>]
NoConcurrencyResult ==
    [status |-> "none", confidence_score |-> 0, max_stable_connections |-> 0,
     performance_breakdown_point |-> 0, load_test_results |-> <<>>]

\* a performance tester that is not constructed
NoPerformanceConfig ==
    [max_concurrent_connections |-> 0, min_success_rate |-> 0]

\* no load test has been started
NoLoad ==
    [pc |-> "none",
     metrics |-> [success_count |-> 0, failure_count |-> 0, error_count |-> 0,
                  response_times |-> <<>>],
     workers |-> <<>>, sessions |-> 0]

\* the process the monitor samples when none is chosen
NoProfile == [memory |-> [base |-> 0, step |-> 0], cpu |-> [odd |-> 0, even |-> 0]]

\* stop() has returned nothing
NoData ==
    [peak_memory_mb |-> 0, avg_memory_mb |-> [num |-> 0, den |-> 1],
     peak_cpu_percent |-> 0, avg_cpu_percent |-> [num |-> 0, den |-> 1],
     memory_samples |-> <<>>, cpu_samples |-> <<>>]

\* ResourceMonitor(): monitoring off, no samples, no task; stop() not called.
\* `taken_memory` and `taken_cpu` are the samples the sampler has taken since
\* start, `ticks` the iterations of its loop.
NoMonitor ==
    [monitoring |-> FALSE, memory_samples |-> <<>>, cpu_samples |-> <<>>,
     monitor_task |-> "none", stop |-> "none", data |-> NoData,
     started |-> FALSE, profile |-> NoProfile, ticks |-> 0,
     taken_memory |-> <<>>, taken_cpu |-> <<>>]

\* no test_resource_usage has been called
NoResource ==
    [pc |-> "none",
     config |-> [max_memory_usage_mb |-> 0, max_cpu_usage_percent |-> 0],
     tools |-> "none", status |-> "none", confidence_score |-> 0, issues |-> <<>>,
     memory_trend |-> [num |-> 0, den |-> 1], data |-> NoData]

\* PerformanceMetrics(): no samples, the counts and the derived metrics 0
NoMetrics ==
    [response_times |-> <<>>, success_count |-> 0, failure_count |-> 0, error_count |-> 0,
     avg_response_time |-> [num |-> 0, den |-> 1], min_response_time |-> 0,
     max_response_time |-> 0, p95_response_time |-> 0, p99_response_time |-> 0,
     success_rate |-> [num |-> 0, den |-> 1], throughput_rps |-> [num |-> 0, den |-> 1]]

\* nothing has been computed
NoCalc ==
    [op |-> "none", metrics |-> NoMetrics, test_duration |-> 0,
     config |-> [max_response_time_ms |-> 0, min_success_rate |-> 0], grade |-> "none",
     memory_samples |-> <<>>, memory_trend |-> [num |-> 0, den |-> 1]]

PerformanceIdle ==
    /\ perf_config = NoPerformanceConfig
    /\ concurrency = NoConcurrency
    /\ concurrency_result = NoConcurrencyResult
    /\ load = NoLoad
    /\ monitor = NoMonitor
    /\ resource = NoResource
    /\ calc = NoCalc

TesterInit ==
    /\ config \in TesterConfigs
    /\ active_toolkits = EmptyDict
    /\ toolkits = EmptyDict
    /\ open_sessions = {}
    /\ stack = <<>>
    /\ pending = NoCall
    /\ ret = NoRet
    /\ returned = NoReturned

RemediationIdle ==
    /\ remediation_strategies = EmptyDict
    /\ remediation_history = <<>>
    /\ retry_configs = EmptyDict
    /\ rem = NoRemediation
    /\ rem_returned = NoResult
    /\ probes = <<>>
    /\ sleeps = <<>>
    /\ probes_ok = TRUE
    /\ active_remediations = EmptyDict

\* a detector that is constructed and left alone
DetectorIdle ==
    /\ health_metrics = EmptyDict
    /\ issue_history = <<>>
    /\ now = 0
    /\ detected = NoAnalysis
    /\ monitored = NoProbe

Init == TesterInit /\ RemediationIdle /\ DetectorIdle /\ PerformanceIdle

Next ==
    \/ \E s \in {S1, S2} : CallConnectivity(s)
    \/ \E s \in {S1, S2} : CallDiscovery(s)
    \/ \E s \in {S1, S2} : \E tool \in ToolNames : CallExecution(s, tool)
    \/ \E cfg \in ValidatedConfigs : CallValidateConfiguration(cfg)
    \/ \E name \in {<<>>, S1, S2, Ghost} : CallRunSuite(name)
    \/ CallCleanup
    \/ ConnectorReturns
    \/ ConnectorRaises
    \/ ConnectorHangs
    \/ DeadlineExpires
    \/ StartSessionEnds
    \/ InitializeEnds
    \/ ToolCallEnds
    \/ CloseEnds
    \/ DiscoveryResumes
    \/ RunSuiteResumesAfterConnectivity
    \/ RunSuiteResumesAfterDiscovery
    \/ RunSuiteResumesAfterExecution

Spec == Init /\ [][Next]_vars

----------------------------------------------------------------------------
(* Properties of the tester *)

\* the coroutine on top of the stack ends in this step
Ends(op) ==
    /\ stack # <<>>
    /\ Last(stack).op = op
    /\ stack' = ButLast(stack)

\* the completion that the coroutine ending in this step hands on
Handed == IF stack' = <<>> THEN returned'.completion ELSE ret'

\* the coroutines entered in this step
Entered == {stack'[i] : i \in (Len(stack) + 1)..Len(stack')}

ReturnedSuites ==
    IF returned.op = "run_suite" /\ returned.completion.kind = "return"
    THEN {returned.completion.value[s] : s \in DOMAIN returned.completion.value}
    ELSE {}

\* C1: in every suite that run_comprehensive_test_suite returns, the first
\* result is the configuration validation and the second the connectivity
\* result of the suite's server; a discovery result is there exactly if
\* connectivity passed; an execution result is there only if discovery
\* passed with at least one tool, and then as the single fourth result; so
\* a suite has 2 to 4 results.
C1_SuiteShape ==
    \A suite \in ReturnedSuites :
        LET rs == suite.results
            n == Len(rs)
        IN /\ n \in 2..4
           /\ rs[1].test_name = <<"configuration", "validation">>
           /\ rs[2].test_name = suite.server_name \o <<"connectivity">>
           /\ (n >= 3) <=> (rs[2].status = "passed")
           /\ n >= 3 => rs[3].test_name = suite.server_name \o <<"tool", "discovery">>
           /\ n = 4 => /\ rs[3].status = "passed"
                       /\ rs[3].details.tool_count >= 1
                       /\ Last(rs[4].test_name) = "execution"
                       /\ rs[4].test_name[Len(suite.server_name) + 1] \in ToolNames
           /\ \A i \in 1..n : Last(rs[i].test_name) = "execution" => i = 4

C1_Witness ==
    \E a, b \in ReturnedSuites : Len(a.results) = 4 /\ Len(b.results) = 2

\* C2: connectivity, discovery, execute and validateConfig always end by
\* returning a TestResult whose status is passed, failed, error or skipped,
\* however the connector call ended; no exception leaves any of them, neither
\* to the caller of the public operation nor to a check that called it.
C2_NoExceptionEscapes ==
    /\ ret.kind # "raise"
    /\ returned.op \in {"connectivity", "discovery", "execution", "validate"}
         => /\ returned.completion.kind = "return"
            /\ returned.completion.value.status
                  \in {"passed", "failed", "error", "skipped"}

C2_Witness ==
    /\ returned.op = "discovery"
    /\ returned.completion.kind = "return"
    /\ returned.completion.value.status = "error"

\* C6: test_server_connectivity maps the way the session start ended to one
\* result: started within the deadline gives passed with confidence 0.95;
\* deadline expired gives failed with confidence 0.90 and the timeout text as
\* error_info; any other exception gives error with confidence 0.85 and the
\* stack trace as error_info.
C6_ConnectivityStep ==
    (AwaitEnded("connectivity", "start_session") /\ Ends("connectivity")) =>
        /\ Handed.kind = "return"
        /\ pending.outcome = "ok" =>
              /\ Handed.value.status = "passed"
              /\ Handed.value.confidence_score = 95
              /\ Handed.value.error_info = None
        /\ pending.outcome = "TimeoutError" =>
              /\ Handed.value.status = "failed"
              /\ Handed.value.confidence_score = 90
              /\ Handed.value.error_info = "Connection timed out after 10 seconds"
        /\ pending.outcome = "Exception" =>
              /\ Handed.value.status = "error"
              /\ Handed.value.confidence_score = 85
              /\ Handed.value.error_info = Traceback

C6_ConnectivityOutcome == [][C6_ConnectivityStep]_vars

C6_Witness ==
    /\ returned.op = "connectivity"
    /\ returned.completion.value.status = "failed"
    /\ returned.completion.value.error_info = TimeoutInfoConnect

\* C7: a connectivity check that passes leaves its server mapped, in the
\* cache, to the toolkit whose session that check opened; one that returns
\* failed or error leaves the cache as it was; no connectivity check touches
\* the entry of another server; and a discovery or execution check entered
\* for a server with a cached toolkit awaits that toolkit and opens no
\* session.
C7_Step ==
    /\ (AwaitEnded("connectivity", "start_session") /\ Ends("connectivity")) =>
          LET s == Last(stack).server
              h == pending.toolkit
          IN /\ Handed.value.status = "passed" =>
                   /\ HasToolkit(active_toolkits', s)
                   /\ active_toolkits'[s] = h
                   /\ h \in open_sessions' \ open_sessions
             /\ Handed.value.status \in {"failed", "error"} =>
                   active_toolkits' = active_toolkits
             /\ \A o \in {S1, S2} \ {s} :
                   /\ HasToolkit(active_toolkits', o) <=> HasToolkit(active_toolkits, o)
                   /\ HasToolkit(active_toolkits, o) =>
                         active_toolkits'[o] = active_toolkits[o]
    /\ \A f \in Entered :
          (f.op \in {"discovery", "execution"} /\ HasToolkit(active_toolkits, f.server)) =>
             /\ pending'.call \in {InitializeForced, "arun"}
             /\ pending'.toolkit = active_toolkits[f.server]
             /\ toolkits' = toolkits
             /\ open_sessions' = open_sessions
    /\ pending.call \in {InitializeForced, "arun"} =>
          /\ pending.toolkit = active_toolkits[Last(stack).server]
          /\ open_sessions' = open_sessions
          /\ active_toolkits' = active_toolkits

C7_CachedToolkit == [][C7_Step]_vars

C7_Witness ==
    /\ pending.call = "arun"
    /\ pending.toolkit = active_toolkits[Last(stack).server]
    /\ Cardinality(DOMAIN active_toolkits) = 2

\* whether the discovery coroutine f found no cached toolkit when entered
Uncached(f) == f.pc = "connectivity" \/ f.conn_result # None

\* C8 as stated: a discovery check entered when no connectivity check of the
\* server has passed (so no toolkit is cached) returns skipped with
\* confidence 0.95.
C8_Original ==
    [][(Ends("discovery") /\ Uncached(Last(stack))) =>
          /\ Handed.value.status = "skipped"
          /\ Handed.value.confidence_score = 95]_vars

\* C8 amended: a discovery check entered with no cached toolkit runs the
\* connectivity check itself; it returns skipped with confidence 0.95,
\* listing nothing, exactly if that check does not pass.  With a cached
\* toolkit, or once its own connectivity check has passed, it awaits a
\* forced capability refresh of the cached toolkit and returns passed with
\* confidence 0.90 if at least one tool was listed and 0.75 if none, or
\* error with confidence 0.85 if the listing raises.
C8_Step ==
    /\ \A f \in Entered : f.op = "discovery" =>
          IF HasToolkit(active_toolkits, f.server)
          THEN /\ pending'.call = InitializeForced
               /\ pending'.toolkit = active_toolkits[f.server]
          ELSE /\ pending'.call = "start_session"
               /\ Last(stack').op = "connectivity"
               /\ Last(stack').server = f.server
    /\ Resumed("discovery", "connectivity") =>
          IF ret.value.status = "passed"
          THEN /\ pending'.call = InitializeForced
               /\ pending'.toolkit = active_toolkits[Last(stack).server]
               /\ Len(stack') = Len(stack)
          ELSE /\ Ends("discovery")
               /\ pending' = NoCall
               /\ Handed.kind = "return"
               /\ Handed.value.status = "skipped"
               /\ Handed.value.confidence_score = 95
    /\ (AwaitEnded("discovery", InitializeForced) /\ Ends("discovery")) =>
          /\ Handed.kind = "return"
          /\ pending.outcome = "ok" =>
                /\ Handed.value.status = "passed"
                /\ Handed.value.details.tool_count = Len(pending.result)
                /\ Len(pending.result) >= 1 => Handed.value.confidence_score = 90
                /\ Len(pending.result) = 0 => Handed.value.confidence_score = 75
          /\ pending.outcome = "Exception" =>
                /\ Handed.value.status = "error"
                /\ Handed.value.confidence_score = 85
    /\ Ends("discovery") =>
          (Handed.value.status = "skipped" <=> Resumed("discovery", "connectivity"))

C8_Discovery == [][C8_Step]_vars

C8_Witness ==
    /\ returned.op = "discovery"
    /\ returned.completion.value.status = "passed"
    /\ returned.completion.value.details.tool_count = 1
    /\ Cardinality(open_sessions) = 1

\* C9: when the deadline of a check expires (10 s in connectivity, 30 s in
\* execution), the check returns a TestResult with status failed, never
\* error, a confidence of at least 0.90 and an error_info naming the timeout.
C9_Step ==
    (stack # <<>> /\ pending.outcome = "TimeoutError" /\ stack' = ButLast(stack)) =>
        /\ Handed.kind = "return"
        /\ Handed.value.status = "failed"
        /\ Handed.value.confidence_score >= 90
        /\ Handed.value.error_info \in {"Connection timed out after 10 seconds",
                                        "Tool execution timed out after 30 seconds"}

C9_TimeoutIsFailed == [][C9_Step]_vars

C9_Witness ==
    /\ returned.op = "execution"
    /\ returned.completion.value.status = "failed"
    /\ returned.completion.value.error_info = TimeoutInfoExecute

\* C10: every connector call the tester awaits is wrapped in a deadline.
C10_EveryAwaitHasDeadline == pending.call # "none" => pending.deadline > 0

----------------------------------------------------------------------------
(* MCPRemediationEngine: data *)

\* largest max_attempts handed to set_retry_config
MaxAttempts == 3

\* remediate_issue is entered for an issue with candidate actions only while
\* the history is shorter than this
MaxHistory == 1

\* RetryConfig.max_attempts when no configuration is set for the server
DefaultMaxAttempts == 3

RemediationStatus ==
    {"pending", "in_progress", "success", "failed", "partial_success", "skipped"}

RemediationStrategy ==
    {"retry", "configuration_fix", "dependency_install", "permission_fix",
     "environment_setup", "resource_cleanup", "service_restart",
     "manual_intervention"}

IssueType ==
    {"connection_failure", "timeout", "authentication_error",
     "tool_execution_error", "configuration_error", "resource_exhaustion",
     "protocol_error", "dependency_missing", "permission_denied",
     "unknown_error"}

RemediationAction(action_id, strategy, confidence) ==
    [action_id |-> action_id, strategy |-> strategy, confidence_score |-> confidence]

RemediationResult(action_id, issue_id, status, confidence, details, error_info, follow_up) ==
    [action_id |-> action_id, issue_id |-> issue_id, status |-> status,
     confidence_score |-> confidence, details |-> details,
     error_info |-> error_info, follow_up_actions |-> follow_up]

\* RetryConfig: base_delay and max_delay in milliseconds, exponential_base in
\* halves (4 is 2.0, 1 is 0.5); the timeout field is read nowhere
RetryConfig(max_attempts, base_delay, max_delay, exponential_base, jitter) ==
    [max_attempts |-> max_attempts, base_delay |-> base_delay, max_delay |-> max_delay,
     exponential_base |-> exponential_base, jitter |-> jitter]

\* RetryConfig(): max_attempts 3, base_delay 1.0, max_delay 60.0,
\* exponential_base 2.0, jitter True
DefaultRetryConfig == RetryConfig(DefaultMaxAttempts, 1000, 60000, 4, TRUE)

Issue(issue_id, issue_type, server_name, error_message) ==
    [issue_id |-> issue_id, issue_type |-> issue_type,
     server_name |-> server_name, error_message |-> error_message]

\* the static table of candidate actions, in the order it is written
initialize_strategies ==
    [t \in {"connection_failure", "timeout", "authentication_error",
            "dependency_missing", "resource_exhaustion", "configuration_error"} |->
        CASE t = "connection_failure" ->
                <<RemediationAction("retry_connection", "retry", 800),
                  RemediationAction("check_executable_path", "configuration_fix", 900),
                  RemediationAction("fix_permissions", "permission_fix", 850)>>
          [] t = "timeout" ->
                <<RemediationAction("increase_timeout", "configuration_fix", 750),
                  RemediationAction("retry_with_backoff", "retry", 700)>>
          [] t = "authentication_error" ->
                <<RemediationAction("check_environment_vars", "environment_setup", 850),
                  RemediationAction("refresh_credentials", "configuration_fix", 700)>>
          [] t = "dependency_missing" ->
                <<RemediationAction("install_dependencies", "dependency_install", 900)>>
          [] t = "resource_exhaustion" ->
                <<RemediationAction("cleanup_resources", "resource_cleanup", 800),
                  RemediationAction("restart_service", "service_restart", 750)>>
          [] t = "configuration_error" ->
                <<RemediationAction("validate_config", "configuration_fix", 850)>>]

\* an error message naming a missing module, and one naming none
MissingModule == "No module named 'x'"

\* the first group of the first pattern found in the message, or None
extract_dependency_name(error_message) ==
    IF error_message = MissingModule THEN "x" ELSE None

\* the issues handed to remediate_issue
Issues ==
    {Issue("issue-1", t, S1, MissingModule) :
        t \in DOMAIN initialize_strategies \cup {"unknown_error"}}
    \cup {Issue("issue-2", t, S2, None) :
        t \in {"connection_failure", "dependency_missing"}}

\* the servers that are given a retry configuration
RetryConfigured == {S1, S2}

\* the configurations handed to set_retry_config: the default delays with
\* every max_attempts (jittered for the smaller ones), a max_delay that the
\* second delay reaches, and an exponential_base of 0.5
RetryConfigs ==
    {RetryConfig(n, 1000, 60000, 4, n < DefaultMaxAttempts) : n \in 0..MaxAttempts}
    \cup {RetryConfig(MaxAttempts, 1000, 1500, 4, FALSE),
          RetryConfig(MaxAttempts, 1000, 60000, 1, FALSE)}

\* values of random.random(), in thousandths; 999 stands for the largest one,
\* 1 - 2^-53
Randoms == {0, 500, 999}

\* the configurations a server is given: any of them for the first server,
\* a single probe after half the delay for the other
RetryOverrides(server_name) ==
    IF server_name = S1 THEN RetryConfigs
    ELSE {RetryConfig(1, 500, 60000, 4, FALSE)}

\* what an action meets outside the engine: how the session start of its
\* connectivity probe ends, whether the server's executable is there (or
\* os.stat raises), whether a required environment variable is unset
ProbeOutcomes == {"ok", "Exception", "TimeoutError"}
PathOutcomes == {"exists", "missing", "raises"}

\* an exception that no handler of the strategy meets: none, one that leaves
\* the strategy's coroutine, one that leaves _execute_remediation_action
RaiseOutcomes == {"none", "strategy", "action"}
Environments ==
    [probe : ProbeOutcomes, path : PathOutcomes, missing_vars : BOOLEAN,
     raises : RaiseOutcomes]

----------------------------------------------------------------------------
(* MCPRemediationEngine: the strategies *)

\* the connectivity probe of the engine: session start and close under the
\* deadline; any exception, the expired deadline included, makes it False
remediation_test_server_connectivity(outcome) == outcome = "ok"

Succeeded(action, issue, details) ==
    RemediationResult(action.action_id, issue.issue_id, "success",
                      action.confidence_score, details, None, <<>>)

\* the result of a partial success is left in progress
PartiallySucceeded_InProgress(action, issue, tenths, follow_up) ==
    RemediationResult(action.action_id, issue.issue_id, "in_progress",
                      (action.confidence_score * tenths) \div 10, EmptyDict,
                      None, follow_up)

\* partial success: the action's score scaled by a factor given in tenths
PartiallySucceeded(action, issue, tenths, follow_up) ==
    RemediationResult(action.action_id, issue.issue_id, "partial_success",
                      (action.confidence_score * tenths) \div 10, EmptyDict,
                      None, follow_up)

Failed(action, issue, details, error_info) ==
    RemediationResult(action.action_id, issue.issue_id, "failed", 0, details,
                      error_info, <<>>)

execute_config_fix_strategy(action, issue, env) ==
    IF issue.issue_type = "timeout"
       /\ remediation_test_server_connectivity(env.probe)
    THEN Succeeded(action, issue, EmptyDict)
    ELSE IF issue.issue_type = "configuration_error"
    THEN PartiallySucceeded(action, issue, 8,
             <<"Review server configuration file", "Check parameter syntax">>)
    ELSE Failed(action, issue, EmptyDict, None)

execute_dependency_install_strategy(action, issue, env) ==
    LET dependency_name == extract_dependency_name(issue.error_message) IN
    IF dependency_name = None
    THEN Failed(action, issue, EmptyDict, None)
    ELSE IF remediation_test_server_connectivity(env.probe)
    THEN Succeeded(action, issue, [dependency |-> dependency_name])
    ELSE PartiallySucceeded(action, issue, 6,
             <<"Check for additional dependencies", "Verify installation">>)

execute_permission_fix_strategy(action, issue, env) ==
    IF env.path = "missing"
    THEN Failed(action, issue, EmptyDict, None)
    ELSE IF env.path = "raises"
    THEN Failed(action, issue, EmptyDict, Traceback)
    ELSE IF remediation_test_server_connectivity(env.probe)
    THEN Succeeded(action, issue, [command_path |-> "python"])
    ELSE Failed(action, issue, EmptyDict, None)

execute_environment_setup_strategy(action, issue, env) ==
    IF env.missing_vars
    THEN PartiallySucceeded(action, issue, 7, <<"Set environment variable">>)
    ELSE IF remediation_test_server_connectivity(env.probe)
    THEN Succeeded(action, issue, EmptyDict)
    ELSE Failed(action, issue, EmptyDict, None)

execute_resource_cleanup_strategy(action, issue, env) ==
    IF remediation_test_server_connectivity(env.probe)
    THEN Succeeded(action, issue, EmptyDict)
    ELSE PartiallySucceeded(action, issue, 5,
             <<"Monitor resource usage", "Consider service restart">>)

execute_service_restart_strategy(action, issue, env) ==
    IF remediation_test_server_connectivity(env.probe)
    THEN Succeeded(action, issue, EmptyDict)
    ELSE Failed(action, issue, EmptyDict, None)

\* the dispatch on the action's strategy, for the strategies other than retry;
\* an exception that leaves the strategy makes a failed result
execute_remediation_action(action, issue, env) ==
    IF env.raises = "strategy" THEN Failed(action, issue, EmptyDict, Traceback) ELSE
    CASE action.strategy = "configuration_fix" ->
            execute_config_fix_strategy(action, issue, env)
      [] action.strategy = "dependency_install" ->
            execute_dependency_install_strategy(action, issue, env)
      [] action.strategy = "permission_fix" ->
            execute_permission_fix_strategy(action, issue, env)
      [] action.strategy = "environment_setup" ->
            execute_environment_setup_strategy(action, issue, env)
      [] action.strategy = "resource_cleanup" ->
            execute_resource_cleanup_strategy(action, issue, env)
      [] action.strategy = "service_restart" ->
            execute_service_restart_strategy(action, issue, env)
      [] OTHER ->
            RemediationResult(action.action_id, issue.issue_id, "skipped", 0,
                              EmptyDict, None, <<>>)

\* 0.5 + random.random() * 0.5, in thousandths: for the largest value of
\* random.random() the binary64 sum 0.5 + (0.5 - 2^-54) rounds to 1.0
jitter_factor(random) == IF random = 999 THEN 1000 ELSE 500 + random \div 2

\* min(base_delay * (exponential_base ** (attempt - 1)), max_delay), in
\* microseconds
retry_delay_Uncapped(retry_config, attempt) ==
    (retry_config.base_delay * 1000
        * Power(retry_config.exponential_base, attempt - 1))
            \div Power(2, attempt - 1)

retry_delay(retry_config, attempt) ==
    Min((retry_config.base_delay * 1000
            * Power(retry_config.exponential_base, attempt - 1))
                \div Power(2, attempt - 1),
        retry_config.max_delay * 1000)

\* the delay handed to asyncio.sleep before the probe of `attempt`: delay *=
\* the jitter factor (a thousandth of the delay, a whole number of
\* microseconds, times the factor in thousandths)
retry_sleep(retry_config, attempt, random) ==
    IF retry_config.jitter
    THEN (retry_delay(retry_config, attempt) \div 1000) * jitter_factor(random)
    ELSE retry_delay(retry_config, attempt)

\* a retry attempt (counted from 0) whose probe succeeded
RetrySucceeded_CountsFromZero(action, issue, attempt) ==
    Succeeded(action, issue, [attempts |-> attempt])

RetrySucceeded(action, issue, attempt) ==
    Succeeded(action, issue, [attempts |-> attempt + 1])

\* the retry loop ended without a successful probe
RetryFailed(action, issue, max_attempts) ==
    Failed(action, issue, [attempts |-> max_attempts], None)

\* actions.sort(key=confidence_score, reverse=True): a stable sort, so an
\* element goes behind the elements that are not smaller
RECURSIVE InsertByConfidence(_, _)
InsertByConfidence(a, sorted) ==
    IF sorted = <<>> THEN <<a>>
    ELSE IF Head(sorted).confidence_score >= a.confidence_score
    THEN <<Head(sorted)>> \o InsertByConfidence(a, Tail(sorted))
    ELSE <<a>> \o sorted

RECURSIVE SortInto(_, _)
SortInto(actions, sorted) ==
    IF actions = <<>> THEN sorted
    ELSE SortInto(Tail(actions), InsertByConfidence(Head(actions), sorted))

SortByConfidence_NotSorted(actions) == actions

SortByConfidence(actions) == SortInto(actions, <<>>)

get_remediation_actions(strategies, issue) == Get(strategies, issue.issue_type, <<>>)

\* a type without candidates is answered like an exhausted list
NoAction_AllFailed(issue) ==
    RemediationResult("all_failed", issue.issue_id, "failed", 0, EmptyDict, None, <<>>)

NoAction(issue) ==
    RemediationResult("no_action", issue.issue_id, "skipped", 0, EmptyDict, None, <<>>)

AllFailed(issue) ==
    RemediationResult("all_failed", issue.issue_id, "failed", 0, EmptyDict, None,
                      <<"Manual intervention required", "Review logs for details">>)

----------------------------------------------------------------------------
(* MCPRemediationEngine: remediate_issue.  R is the engine's state as one   *)
(* record; `rem` is the remediate_issue coroutine: its issue, the list it  *)
(* iterates over, the index i of the action in hand, and for a retry       *)
(* action the loop variable `attempt` and the max_attempts read on entry.  *)

R == [remediation_strategies |-> remediation_strategies,
      remediation_history |-> remediation_history,
      retry_configs |-> retry_configs, rem |-> rem,
      rem_returned |-> rem_returned, probes |-> probes, sleeps |-> sleeps,
      probes_ok |-> probes_ok, active_remediations |-> active_remediations]

SetR(r) ==
    /\ remediation_strategies' = r.remediation_strategies
    /\ remediation_history' = r.remediation_history
    /\ retry_configs' = r.retry_configs
    /\ rem' = r.rem
    /\ rem_returned' = r.rem_returned
    /\ probes' = r.probes
    /\ sleeps' = r.sleeps
    /\ probes_ok' = r.probes_ok
    /\ active_remediations' = r.active_remediations

\* the action the loop of remediate_issue has in hand
CurrentAction(r) == r.rem.actions[r.rem.i]

\* remediate_issue up to the first action of its loop
EnterRemediate(r, issue) ==
    LET actions == get_remediation_actions(r.remediation_strategies, issue) IN
    IF actions = <<>>
    THEN [r EXCEPT !.rem_returned = NoAction(issue)]
    ELSE LET sorted == SortByConfidence(actions) IN
         [r EXCEPT !.remediation_strategies =
                       [@ EXCEPT ![issue.issue_type] = sorted],
                   !.rem = [issue |-> issue, actions |-> sorted, i |-> 1,
                            pc |-> "action", attempt |-> 0, max_attempts |-> 0,
                            retry_config |-> NoRetryConfig],
                   !.rem_returned = NoResult,
                   !.probes = <<>>,
                   !.sleeps = <<>>,
                   !.probes_ok = TRUE]

\* the loop body after the action in hand returned `result`
AfterAction_RecordsSynthetic(r, result) ==
    LET history == Append(r.remediation_history, result) IN
    IF result.status = "success"
    THEN [r EXCEPT !.remediation_history = history, !.rem = NoRemediation,
                   !.rem_returned = result]
    ELSE IF r.rem.i < Len(r.rem.actions)
    THEN [r EXCEPT !.remediation_history = history,
                   !.rem = [@ EXCEPT !.i = @ + 1, !.pc = "action"]]
    ELSE [r EXCEPT !.remediation_history = Append(history, AllFailed(r.rem.issue)),
                   !.rem = NoRemediation, !.rem_returned = AllFailed(r.rem.issue)]

AfterAction(r, result) ==
    LET history == Append(r.remediation_history, result) IN
    IF result.status = "success"
    THEN [r EXCEPT !.remediation_history = history, !.rem = NoRemediation,
                   !.rem_returned = result]
    ELSE IF r.rem.i < Len(r.rem.actions)
    THEN [r EXCEPT !.remediation_history = history,
                   !.rem = [@ EXCEPT !.i = @ + 1, !.pc = "action"]]
    ELSE [r EXCEPT !.remediation_history = history, !.rem = NoRemediation,
                   !.rem_returned = AllFailed(r.rem.issue)]

\* the override of the issue's server is not looked up
EnterRetry_IgnoresOverride(r) ==
    [r EXCEPT !.rem = [@ EXCEPT !.pc = "retry", !.attempt = 0,
                                !.max_attempts = DefaultRetryConfig.max_attempts,
                                !.retry_config = DefaultRetryConfig],
              !.probes = <<>>,
              !.sleeps = <<>>]

\* the loop body's handler returns its failed result instead of going on
AfterRaise_Returns(r) ==
    LET error_result == Failed(CurrentAction(r), r.rem.issue, EmptyDict, Traceback)
    IN [r EXCEPT !.remediation_history = Append(@, error_result),
                 !.rem = NoRemediation, !.rem_returned = error_result]

\* the loop body when _execute_remediation_action raised: `except Exception`
\* records a failed result and the loop goes on
AfterRaise(r) ==
    LET error_result == Failed(CurrentAction(r), r.rem.issue, EmptyDict, Traceback)
        history == Append(r.remediation_history, error_result)
    IN IF r.rem.i < Len(r.rem.actions)
       THEN [r EXCEPT !.remediation_history = history,
                      !.rem = [@ EXCEPT !.i = @ + 1, !.pc = "action"]]
       ELSE [r EXCEPT !.remediation_history = history, !.rem = NoRemediation,
                      !.rem_returned = AllFailed(r.rem.issue)]

\* _execute_retry_strategy up to its loop: the retry configuration is read
EnterRetry(r) ==
    LET retry_config == Get(r.retry_configs, r.rem.issue.server_name,
                            DefaultRetryConfig)
    IN [r EXCEPT !.rem = [@ EXCEPT !.pc = "retry", !.attempt = 0,
                                   !.max_attempts = retry_config.max_attempts,
                                   !.retry_config = retry_config],
                 !.probes = <<>>,
                 !.sleeps = <<>>]

\* one iteration of the retry loop: the sleep when it is not the first, then
\* the probe, ending as `outcome`
RetryProbe(r, outcome, random) ==
    LET success == remediation_test_server_connectivity(outcome)
        probed == [r EXCEPT !.probes = Append(@, success),
                            !.probes_ok = @ /\ success,
                            !.sleeps = IF r.rem.attempt > 0
                                       THEN Append(@, retry_sleep(r.rem.retry_config,
                                                                  r.rem.attempt, random))
                                       ELSE @]
    IN IF success
       THEN AfterAction(probed, RetrySucceeded(CurrentAction(r), r.rem.issue,
                                                r.rem.attempt))
       ELSE [probed EXCEPT !.rem = [@ EXCEPT !.attempt = @ + 1]]

\* the retry loop is exhausted
RetryExhausted(r) ==
    AfterAction(r, RetryFailed(CurrentAction(r), r.rem.issue, r.rem.max_attempts))

\* the strategy of `action` reaches its connectivity probe
calls_probe(action, issue, env) ==
    CASE action.strategy = "configuration_fix" -> issue.issue_type = "timeout"
      [] action.strategy = "dependency_install" ->
            extract_dependency_name(issue.error_message) # None
      [] action.strategy = "permission_fix" -> env.path = "exists"
      [] action.strategy = "environment_setup" -> ~env.missing_vars
      [] action.strategy \in {"resource_cleanup", "service_restart"} -> TRUE
      [] OTHER -> FALSE

\* the probe of the action in hand, when it is reached, has been made
Probed(r, action, issue, env) ==
    [r EXCEPT !.probes_ok =
        @ /\ ((env.raises = "none" /\ calls_probe(action, issue, env)) =>
                 remediation_test_server_connectivity(env.probe))]

\* one pass of the loop body of remediate_issue for an action that is not a
\* retry, in the environment env
Executed(r, env) ==
    IF env.raises = "action"
    THEN AfterRaise(r)
    ELSE AfterAction(Probed(r, CurrentAction(r), r.rem.issue, env),
                     execute_remediation_action(CurrentAction(r), r.rem.issue, env))

----------------------------------------------------------------------------
(* Actions of the remediation engine *)

Remediating(pc) == rem.pc = pc

CallRemediateIssue(issue) ==
    /\ Remediating("none")
    /\ \/ get_remediation_actions(remediation_strategies, issue) = <<>>
       \/ Len(remediation_history) < MaxHistory
    /\ SetR(EnterRemediate(R, issue))
    /\ UNCHANGED <<testerVars, detVars, perfVars>>

\* the action in hand is executed; it is not a retry
ActionEnds ==
    /\ Remediating("action")
    /\ CurrentAction(R).strategy # "retry"
    /\ \E env \in Environments : SetR(Executed(R, env))
    /\ UNCHANGED <<testerVars, detVars, perfVars>>

RetryStarts ==
    /\ Remediating("action")
    /\ CurrentAction(R).strategy = "retry"
    /\ SetR(EnterRetry(R))
    /\ UNCHANGED <<testerVars, detVars, perfVars>>

RetryProbeEnds ==
    /\ Remediating("retry")
    /\ rem.attempt < rem.max_attempts
    /\ \E outcome \in ProbeOutcomes :
          \E random \in IF rem.attempt > 0 /\ rem.retry_config.jitter
                        THEN Randoms ELSE {0} :
              SetR(RetryProbe(R, outcome, random))
    /\ UNCHANGED <<testerVars, detVars, perfVars>>

RetryEnds ==
    /\ Remediating("retry")
    /\ rem.attempt >= rem.max_attempts
    /\ SetR(RetryExhausted(R))
    /\ UNCHANGED <<testerVars, detVars, perfVars>>

SetRetryConfig(server_name, retry_config) ==
    /\ retry_configs' = DictSet(retry_configs, server_name, retry_config)
    /\ UNCHANGED <<remediation_strategies, remediation_history, rem, rem_returned,
                   probes, sleeps, probes_ok, active_remediations, testerVars,
                   detVars, perfVars>>

\* the candidates of an issue type are cleared, as a caller of the engine may:
\* _remediation_strategies[issue_type] = []
ClearStrategies(issue_type) ==
    /\ Remediating("none")
    /\ remediation_strategies' =
            [t \in DOMAIN remediation_strategies \cup {issue_type} |->
                IF t = issue_type THEN <<>> ELSE remediation_strategies[t]]
    /\ UNCHANGED <<remediation_history, retry_configs, rem, rem_returned, probes,
                   sleeps, probes_ok, active_remediations, testerVars, detVars, perfVars>>

\* the engine after construction, beside a tester that is left alone
RemediationInit ==
    /\ TesterInit
    /\ PerformanceIdle
    /\ config.mcp_servers = EmptyDict
    /\ DetectorIdle
    /\ active_remediations = EmptyDict
    /\ remediation_strategies = initialize_strategies
    /\ remediation_history = <<>>
    /\ retry_configs = EmptyDict
    /\ rem = NoRemediation
    /\ rem_returned = NoResult
    /\ probes = <<>>
    /\ sleeps = <<>>
    /\ probes_ok = TRUE

RemediationNext ==
    \/ \E issue \in Issues : CallRemediateIssue(issue)
    \/ ActionEnds
    \/ RetryStarts
    \/ RetryProbeEnds
    \/ RetryEnds
    \/ \E s \in RetryConfigured : \E c \in RetryOverrides(s) : SetRetryConfig(s, c)
    \/ ClearStrategies("unknown_error")

SpecRemediation == RemediationInit /\ [][RemediationNext]_vars

\* get_remediation_history(issue_id): a copy of the history, or its entries
\* for the issue when an id is given
get_remediation_history(history, issue_id) ==
    IF issue_id # None /\ issue_id # ""
    THEN SelectSeq(history, LAMBDA entry : entry.issue_id = issue_id)
    ELSE history

----------------------------------------------------------------------------
(* Properties of the remediation engine *)

\* the action in hand has been executed by this step
ActionExecuted == rem.pc # "none" /\ (rem'.pc = "none" \/ rem'.i # rem.i)

\* remediate_issue returns from its loop in this step
RemediateReturns == rem.pc # "none" /\ rem'.pc = "none"

IsDescending(actions) ==
    \A i, j \in 1..Len(actions) :
        i < j => actions[i].confidence_score >= actions[j].confidence_score

\* the entries of the history made by the running remediate_issue
Attempted(history, r) == SubSeq(history, Len(history) - (r.i - 1) + 1, Len(history))

\* a running remediate_issue iterates over the candidates of the issue's type
\* in descending score and has executed those before the one in hand, in
\* that order, none with success
C3_InOrder(history, r) ==
    r.pc # "none" =>
        /\ IsDescending(r.actions)
        /\ Len(r.actions) = Len(initialize_strategies[r.issue.issue_type])
        /\ {r.actions[k] : k \in 1..Len(r.actions)}
             = {initialize_strategies[r.issue.issue_type][k] :
                   k \in 1..Len(r.actions)}
        /\ Len(history) >= r.i - 1
        /\ \A k \in 1..(r.i - 1) :
              /\ Attempted(history, r)[k].action_id = r.actions[k].action_id
              /\ Attempted(history, r)[k].status # "success"

C3_Step ==
    /\ C3_InOrder(remediation_history', rem')
    /\ RemediateReturns =>
          /\ Len(remediation_history') = Len(remediation_history) + 1
          /\ Last(remediation_history').action_id = rem.actions[rem.i].action_id
          /\ \/ /\ rem_returned'.status = "success"
                /\ rem_returned' = Last(remediation_history')
             \/ /\ rem.i = Len(rem.actions)
                /\ Last(remediation_history').status # "success"
                /\ rem_returned'.action_id = "all_failed"
                /\ rem_returned'.status = "failed"
                /\ rem_returned'.issue_id = rem.issue.issue_id
                /\ \E k \in 1..Len(rem_returned'.follow_up_actions) :
                      rem_returned'.follow_up_actions[k] = "Manual intervention required"
    /\ (rem.pc = "none" /\ rem'.pc = "none") =>
          remediation_history' = remediation_history

\* C3: remediate_issue tries the candidate actions of the issue's type one at
\* a time in descending confidence_score order; it returns the result of the
\* first action whose status is success and executes no candidate after it;
\* if no candidate succeeds it returns a synthetic failed result whose
\* follow-up actions say that manual intervention is required.
C3_FirstSuccess == [][C3_Step]_vars

C3_Witness ==
    /\ Len(remediation_history) = 3
    /\ remediation_history[1].action_id = "check_executable_path"
    /\ remediation_history[2].action_id = "fix_permissions"
    /\ remediation_history[3].action_id = "retry_connection"
    /\ rem_returned = remediation_history[3]
    /\ rem_returned.status = "success"

\* the retry configuration in force for an issue's server
ConfiguredAttempts(configs, server_name) ==
    IF server_name \in DOMAIN configs THEN configs[server_name].max_attempts
    ELSE 3

C4_Step ==
    /\ (rem.pc = "action" /\ rem'.pc = "retry") =>
          /\ rem'.max_attempts = ConfiguredAttempts(retry_configs, rem.issue.server_name)
          /\ probes' = <<>>
    /\ rem'.pc = "retry" =>
          /\ Len(probes') = rem'.attempt
          /\ rem'.attempt <= rem'.max_attempts
          /\ \A k \in 1..Len(probes') : ~probes'[k]
    /\ (rem.pc = "retry" /\ ActionExecuted) =>
          LET result == Last(remediation_history')
              n == rem.max_attempts
              hits == {k \in 1..Len(probes') : probes'[k]}
          IN IF hits # {}
             THEN LET k == CHOOSE h \in hits : \A g \in hits : h <= g IN
                  /\ result.status = "success"
                  /\ result.details.attempts = k
                  /\ Len(probes') = k
                  /\ k <= n
             ELSE /\ result.status = "failed"
                  /\ result.details.attempts = n
                  /\ Len(probes') = n
    /\ rem.pc # "retry" => (probes' = probes \/ probes' = <<>>)

\* C4: the retry strategy with max_attempts = n probes connectivity until the
\* first probe that succeeds: if that is probe k, the result is success with
\* details.attempts = k and exactly k probes were made; if none of n probes
\* succeeds the result is failed with details.attempts = n after exactly n
\* probes.  So n = 3 and probes [false, false, true] give success with
\* attempts = 3.
C4_RetryAttempts == [][C4_Step]_vars

C4_Witness ==
    /\ probes = <<FALSE, FALSE, TRUE>>
    /\ rem.pc = "none"
    /\ remediation_history # <<>>
    /\ rem_returned = Last(remediation_history)
    /\ rem_returned.action_id = "retry_with_backoff"
    /\ rem_returned.status = "success"
    /\ rem_returned.details.attempts = 3

C5_Step ==
    /\ IF ActionExecuted
       THEN /\ Len(remediation_history') = Len(remediation_history) + 1
            /\ SubSeq(remediation_history', 1, Len(remediation_history))
                 = remediation_history
            /\ Last(remediation_history').issue_id = rem.issue.issue_id
            /\ Last(remediation_history').action_id = rem.actions[rem.i].action_id
       ELSE remediation_history' = remediation_history
    /\ get_remediation_history(remediation_history', None) = remediation_history'

----------------------------------------------------------------------------
(* Properties of a run over all servers *)

EnabledServers == {s \in DOMAIN config.mcp_servers : config.mcp_servers[s].enabled}

\* C11: run_comprehensive_test_suite called without a server name returns
\* exactly one TestSuite for every enabled server, whatever the checks of
\* the other servers returned: the suite of a server is filed under its name
\* and holds, after the configuration result, only results of its own checks.
C11_OneSuitePerEnabledServer ==
    (returned.op = "run_suite" /\ returned.server = <<>>) =>
        /\ returned.completion.kind = "return"
        /\ DOMAIN returned.completion.value = EnabledServers
        /\ \A s \in DOMAIN returned.completion.value :
              LET suite == returned.completion.value[s] IN
              /\ suite.server_name = s
              /\ suite.total_tests = Len(suite.results)
              /\ suite.results[1] = validate_configuration(config).value
              /\ \A i \in 2..Len(suite.results) :
                    SubSeq(suite.results[i].test_name, 1, Len(s)) = s

C11_Witness ==
    /\ returned.op = "run_suite"
    /\ returned.server = <<>>
    /\ DOMAIN returned.completion.value = {S1, S2}
    /\ returned.completion.value[S1].results[2].status \in {"failed", "error"}
    /\ returned.completion.value[S2].results[2].status = "passed"
    /\ returned.completion.value[S2].total_tests = 4

----------------------------------------------------------------------------
(* MCPIssueDetector: texts and regular expressions.  A text is the sequence *)
(* of its characters; Characters gives it for the strings that occur.  A   *)
(* regular expression of the pattern table is a sequence of literal parts  *)
(* with `.*` between them; with re.IGNORECASE text and parts are compared  *)
(* in lower case, so a part is written in lower case and [Cc] is c.        *)

LowerCase ==
    ("A" :> "a")
    @@ ("B" :> "b")
    @@ ("C" :> "c")
    @@ ("D" :> "d")
    @@ ("E" :> "e")
    @@ ("F" :> "f")
    @@ ("G" :> "g")
    @@ ("H" :> "h")
    @@ ("I" :> "i")
    @@ ("J" :> "j")
    @@ ("K" :> "k")
    @@ ("L" :> "l")
    @@ ("M" :> "m")
    @@ ("N" :> "n")
    @@ ("O" :> "o")
    @@ ("P" :> "p")
    @@ ("Q" :> "q")
    @@ ("R" :> "r")
    @@ ("S" :> "s")
    @@ ("T" :> "t")
    @@ ("U" :> "u")
    @@ ("V" :> "v")
    @@ ("W" :> "w")
    @@ ("X" :> "x")
    @@ ("Y" :> "y")
    @@ ("Z" :> "z")

Characters ==
    ("ConnectionRefusedError: [Errno 61] Connection refused" :>
          <<"C", "o", "n", "n", "e", "c", "t", "i", "o", "n", "R", "e", "f", "u", "s", "e", "d", "E", "r", "r", "o", "r", ":", " ", "[", "E", "r", "r", "n", "o", " ", "6", "1", "]", " ", "C", "o", "n", "n", "e", "c", "t", "i", "o", "n", " ", "r", "e", "f", "u", "s", "e", "d">>)
    @@ ("Connection refused" :>
          <<"C", "o", "n", "n", "e", "c", "t", "i", "o", "n", " ", "r", "e", "f", "u", "s", "e", "d">>)
    @@ ("asyncio.TimeoutError: timeout after 10 seconds" :>
          <<"a", "s", "y", "n", "c", "i", "o", ".", "T", "i", "m", "e", "o", "u", "t", "E", "r", "r", "o", "r", ":", " ", "t", "i", "m", "e", "o", "u", "t", " ", "a", "f", "t", "e", "r", " ", "1", "0", " ", "s", "e", "c", "o", "n", "d", "s">>)
    @@ ("Operation timed out" :>
          <<"O", "p", "e", "r", "a", "t", "i", "o", "n", " ", "t", "i", "m", "e", "d", " ", "o", "u", "t">>)
    @@ ("UnknownError: mysterious failure" :>
          <<"U", "n", "k", "n", "o", "w", "n", "E", "r", "r", "o", "r", ":", " ", "m", "y", "s", "t", "e", "r", "i", "o", "u", "s", " ", "f", "a", "i", "l", "u", "r", "e">>)
    @@ ("Some unknown error occurred" :>
          <<"S", "o", "m", "e", " ", "u", "n", "k", "n", "o", "w", "n", " ", "e", "r", "r", "o", "r", " ", "o", "c", "c", "u", "r", "r", "e", "d">>)
    @@ ("Connection timed out after 10 seconds" :>
          <<"C", "o", "n", "n", "e", "c", "t", "i", "o", "n", " ", "t", "i", "m", "e", "d", " ", "o", "u", "t", " ", "a", "f", "t", "e", "r", " ", "1", "0", " ", "s", "e", "c", "o", "n", "d", "s">>)
    @@ ("Connection timeout for files" :>
          <<"C", "o", "n", "n", "e", "c", "t", "i", "o", "n", " ", "t", "i", "m", "e", "o", "u", "t", " ", "f", "o", "r", " ", "f", "i", "l", "e", "s">>)
    @@ ("ConnectionError: connect timed out" :>
          <<"C", "o", "n", "n", "e", "c", "t", "i", "o", "n", "E", "r", "r", "o", "r", ":", " ", "c", "o", "n", "n", "e", "c", "t", " ", "t", "i", "m", "e", "d", " ", "o", "u", "t">>)
    @@ ("Connection lost\nrequest refused" :>
          <<"C", "o", "n", "n", "e", "c", "t", "i", "o", "n", " ", "l", "o", "s", "t", "\n", "r", "e", "q", "u", "e", "s", "t", " ", "r", "e", "f", "u", "s", "e", "d">>)
    @@ ("Successfully connected to files" :>
          <<"S", "u", "c", "c", "e", "s", "s", "f", "u", "l", "l", "y", " ", "c", "o", "n", "n", "e", "c", "t", "e", "d", " ", "t", "o", " ", "f", "i", "l", "e", "s">>)

\* the literal parts of the regular expressions, in lower case
PartCharacters ==
    ("access denied" :> <<"a", "c", "c", "e", "s", "s", " ", "d", "e", "n", "i", "e", "d">>)
    @@ ("asyncio.timeout" :> <<"a", "s", "y", "n", "c", "i", "o", ".", "t", "i", "m", "e", "o", "u", "t">>)
    @@ ("authentication failed" :> <<"a", "u", "t", "h", "e", "n", "t", "i", "c", "a", "t", "i", "o", "n", " ", "f", "a", "i", "l", "e", "d">>)
    @@ ("command not found" :> <<"c", "o", "m", "m", "a", "n", "d", " ", "n", "o", "t", " ", "f", "o", "u", "n", "d">>)
    @@ ("configuration error" :> <<"c", "o", "n", "f", "i", "g", "u", "r", "a", "t", "i", "o", "n", " ", "e", "r", "r", "o", "r">>)
    @@ ("configurationerror" :> <<"c", "o", "n", "f", "i", "g", "u", "r", "a", "t", "i", "o", "n", "e", "r", "r", "o", "r">>)
    @@ ("connection" :> <<"c", "o", "n", "n", "e", "c", "t", "i", "o", "n">>)
    @@ ("connection refused" :> <<"c", "o", "n", "n", "e", "c", "t", "i", "o", "n", " ", "r", "e", "f", "u", "s", "e", "d">>)
    @@ ("connectionerror" :> <<"c", "o", "n", "n", "e", "c", "t", "i", "o", "n", "e", "r", "r", "o", "r">>)
    @@ ("connectionrefusederror" :> <<"c", "o", "n", "n", "e", "c", "t", "i", "o", "n", "r", "e", "f", "u", "s", "e", "d", "e", "r", "r", "o", "r">>)
    @@ ("dependency not installed" :> <<"d", "e", "p", "e", "n", "d", "e", "n", "c", "y", " ", "n", "o", "t", " ", "i", "n", "s", "t", "a", "l", "l", "e", "d">>)
    @@ ("execute" :> <<"e", "x", "e", "c", "u", "t", "e">>)
    @@ ("import error" :> <<"i", "m", "p", "o", "r", "t", " ", "e", "r", "r", "o", "r">>)
    @@ ("invalid configuration" :> <<"i", "n", "v", "a", "l", "i", "d", " ", "c", "o", "n", "f", "i", "g", "u", "r", "a", "t", "i", "o", "n">>)
    @@ ("invalid credentials" :> <<"i", "n", "v", "a", "l", "i", "d", " ", "c", "r", "e", "d", "e", "n", "t", "i", "a", "l", "s">>)
    @@ ("invalid json-rpc" :> <<"i", "n", "v", "a", "l", "i", "d", " ", "j", "s", "o", "n", "-", "r", "p", "c">>)
    @@ ("invalid tool arguments" :> <<"i", "n", "v", "a", "l", "i", "d", " ", "t", "o", "o", "l", " ", "a", "r", "g", "u", "m", "e", "n", "t", "s">>)
    @@ ("malformed request" :> <<"m", "a", "l", "f", "o", "r", "m", "e", "d", " ", "r", "e", "q", "u", "e", "s", "t">>)
    @@ ("memory error" :> <<"m", "e", "m", "o", "r", "y", " ", "e", "r", "r", "o", "r">>)
    @@ ("missing required parameter" :> <<"m", "i", "s", "s", "i", "n", "g", " ", "r", "e", "q", "u", "i", "r", "e", "d", " ", "p", "a", "r", "a", "m", "e", "t", "e", "r">>)
    @@ ("module not found" :> <<"m", "o", "d", "u", "l", "e", " ", "n", "o", "t", " ", "f", "o", "u", "n", "d">>)
    @@ ("modulenotfounderror" :> <<"m", "o", "d", "u", "l", "e", "n", "o", "t", "f", "o", "u", "n", "d", "e", "r", "r", "o", "r">>)
    @@ ("no such file or directory" :> <<"n", "o", " ", "s", "u", "c", "h", " ", "f", "i", "l", "e", " ", "o", "r", " ", "d", "i", "r", "e", "c", "t", "o", "r", "y">>)
    @@ ("out of memory" :> <<"o", "u", "t", " ", "o", "f", " ", "m", "e", "m", "o", "r", "y">>)
    @@ ("permission denied" :> <<"p", "e", "r", "m", "i", "s", "s", "i", "o", "n", " ", "d", "e", "n", "i", "e", "d">>)
    @@ ("protocol error" :> <<"p", "r", "o", "t", "o", "c", "o", "l", " ", "e", "r", "r", "o", "r">>)
    @@ ("protocol version mismatch" :> <<"p", "r", "o", "t", "o", "c", "o", "l", " ", "v", "e", "r", "s", "i", "o", "n", " ", "m", "i", "s", "m", "a", "t", "c", "h">>)
    @@ ("refused" :> <<"r", "e", "f", "u", "s", "e", "d">>)
    @@ ("resource exhausted" :> <<"r", "e", "s", "o", "u", "r", "c", "e", " ", "e", "x", "h", "a", "u", "s", "t", "e", "d">>)
    @@ ("timed out" :> <<"t", "i", "m", "e", "d", " ", "o", "u", "t">>)
    @@ ("timeout" :> <<"t", "i", "m", "e", "o", "u", "t">>)
    @@ ("timeouterror" :> <<"t", "i", "m", "e", "o", "u", "t", "e", "r", "r", "o", "r">>)
    @@ ("too many open files" :> <<"t", "o", "o", " ", "m", "a", "n", "y", " ", "o", "p", "e", "n", " ", "f", "i", "l", "e", "s">>)
    @@ ("tool execution failed" :> <<"t", "o", "o", "l", " ", "e", "x", "e", "c", "u", "t", "i", "o", "n", " ", "f", "a", "i", "l", "e", "d">>)
    @@ ("tool not found" :> <<"t", "o", "o", "l", " ", "n", "o", "t", " ", "f", "o", "u", "n", "d">>)
    @@ ("toolexception" :> <<"t", "o", "o", "l", "e", "x", "c", "e", "p", "t", "i", "o", "n">>)
    @@ ("unauthorized" :> <<"u", "n", "a", "u", "t", "h", "o", "r", "i", "z", "e", "d">>)

\* str.lower() of a text
Lower(text) ==
    [i \in 1..Len(text) |->
        IF text[i] \in DOMAIN LowerCase THEN LowerCase[text[i]] ELSE text[i]]

\* the characters of an optional string: None and "" are the empty text
TextOf(string) == IF string = None \/ string = "" THEN <<>> ELSE Characters[string]

\* the part stands in the text at position i
OccursAt(part, text, i) ==
    /\ i + Len(part) - 1 <= Len(text)
    /\ SubSeq(text, i, i + Len(part) - 1) = part

\* `.` matches any character but a newline
SameLine(text, i, j) == \A k \in i..j : text[k] # "\n"

\* the parts that follow a `.*`, matched from position i on
RECURSIVE MatchRest(_, _, _)
MatchRest(parts, text, i) ==
    \/ parts = <<>>
    \/ \E j \in i..Len(text) :
          /\ SameLine(text, i, j - 1)
          /\ OccursAt(PartCharacters[Head(parts)], text, j)
          /\ MatchRest(Tail(parts), text, j + Len(PartCharacters[Head(parts)]))

\* re.search(regex, text, re.IGNORECASE) finds a match
re_search(regex, text) ==
    LET lowered == Lower(text) IN
    \E j \in 1..Len(lowered) :
        /\ OccursAt(PartCharacters[Head(regex)], lowered, j)
        /\ MatchRest(Tail(regex), lowered, j + Len(PartCharacters[Head(regex)]))

----------------------------------------------------------------------------
(* MCPIssueDetector: data.  A confidence of the detector is kept in units   *)
(* of 1/DetectorScale, which makes every value of _match_pattern exact.    *)

\* hundredths, halved by the factor 0.5, over 4 or 7 alternatives
DetectorScale == 100 * 2 * 28

\* a score given in hundredths, in detector units
Hundredths(score) == score * (DetectorScale \div 100)

IssueSeverity == {"critical", "high", "medium", "low", "info"}

IssuePattern(pattern_id, issue_type, severity, error_patterns, confidence_base) ==
    [pattern_id |-> pattern_id, issue_type |-> issue_type, severity |-> severity,
     error_patterns |-> error_patterns, confidence_base |-> confidence_base]

\* the pattern table, in the order it is written
initialize_patterns ==
    <<IssuePattern(<<"connection", "refused">>, "connection_failure", "high",
                     <<<<"connection refused">>,
                       <<"connection", "refused">>,
                       <<"no such file or directory">>,
                       <<"command not found">>,
                       <<"permission denied", "execute">>,
                       <<"connectionrefusederror">>,
                       <<"connectionerror">>>>,
                     Hundredths(95)),
      IssuePattern(<<"timeout", "error">>, "timeout", "medium",
                     <<<<"timeout">>,
                       <<"timed out">>,
                       <<"timeouterror">>,
                       <<"asyncio.timeout">>>>,
                     Hundredths(90)),
      IssuePattern(<<"auth", "error">>, "authentication_error", "high",
                     <<<<"authentication failed">>,
                       <<"invalid credentials">>,
                       <<"unauthorized">>,
                       <<"access denied">>>>,
                     Hundredths(92)),
      IssuePattern(<<"tool", "execution", "error">>, "tool_execution_error", "medium",
                     <<<<"tool execution failed">>,
                       <<"invalid tool arguments">>,
                       <<"tool not found">>,
                       <<"toolexception">>>>,
                     Hundredths(85)),
      IssuePattern(<<"config", "error">>, "configuration_error", "high",
                     <<<<"configuration error">>,
                       <<"invalid configuration">>,
                       <<"missing required parameter">>,
                       <<"configurationerror">>>>,
                     Hundredths(88)),
      IssuePattern(<<"resource", "exhaustion">>, "resource_exhaustion", "critical",
                     <<<<"out of memory">>,
                       <<"memory error">>,
                       <<"resource exhausted">>,
                       <<"too many open files">>>>,
                     Hundredths(93)),
      IssuePattern(<<"protocol", "error">>, "protocol_error", "medium",
                     <<<<"protocol error">>,
                       <<"invalid json-rpc">>,
                       <<"malformed request">>,
                       <<"protocol version mismatch">>>>,
                     Hundredths(87)),
      IssuePattern(<<"dependency", "missing">>, "dependency_missing", "high",
                     <<<<"module not found">>,
                       <<"import error">>,
                       <<"dependency not installed">>,
                       <<"modulenotfounderror">>>>,
                     Hundredths(91))>>

----------------------------------------------------------------------------
(* MCPIssueDetector: analyze_test_failures *)

\* the fields of a TestResult that the detector reads; execution_time is in
\* whole seconds
AnalyzedResult(test_name, status, execution_time, message, error_info) ==
    [test_name |-> test_name, status |-> status, execution_time |-> execution_time,
     message |-> message, error_info |-> error_info]

\* the fields of an Issue that the detector sets
DetectedIssue(issue_id, issue_type, severity, confidence, server_name, test_name, error_message) ==
    [issue_id |-> issue_id, issue_type |-> issue_type, severity |-> severity,
     confidence_score |-> confidence, server_name |-> server_name,
     test_name |-> test_name, error_message |-> error_message,
     related_issues |-> <<>>]

\* error_info, then a blank and the message, each if it is there
error_text(test_result) ==
    (IF test_result.error_info # None /\ test_result.error_info # ""
     THEN TextOf(test_result.error_info) ELSE <<>>)
    \o (IF test_result.message # None /\ test_result.message # ""
        THEN <<" ">> \o TextOf(test_result.message) ELSE <<>>)

\* the number of the pattern's regular expressions found in the text
pattern_matches(pattern, text) ==
    Cardinality({k \in 1..Len(pattern.error_patterns) :
                    re_search(pattern.error_patterns[k], text)})

\* the confidence of several matches: base + (1 - base) * min(m / n, 1) * 0.5
Boosted_WholeRemainder(base, m, n) == base + (DetectorScale - base)

Boosted(base, m, n) == base + ((DetectorScale - base) * Min(m, n)) \div (2 * n)

match_pattern(pattern, text, test_result) ==
    LET base == pattern.confidence_base
        m == pattern_matches(pattern, text)
        matched == IF m = 1 THEN base
                   ELSE Boosted(base, m, Len(pattern.error_patterns))
        timed == IF test_result.execution_time > 10 /\ pattern.issue_type = "timeout"
                 THEN Min(matched + DetectorScale \div 10, DetectorScale)
                 ELSE matched
    IN IF m = 0 THEN 0
       ELSE IF test_result.status = "error"
       THEN Min(timed + DetectorScale \div 20, DetectorScale)
       ELSE timed

\* test_name.split('_')[0] if '_' in test_name else "unknown"
server_of(test_name) ==
    IF Len(test_name) > 1 THEN <<Head(test_name)>> ELSE <<"unknown">>

\* f"{test_name}_{pattern_id}_{int(time.time())}"
issue_id_of(test_name, pattern_id, time) == test_name \o pattern_id \o <<ToString(time)>>

\* results as the tester and the detector's tests build them
AnalyzedResults ==
    { AnalyzedResult(S1 \o <<"connectivity">>, "error", 5, "Connection refused",
                     "ConnectionRefusedError: [Errno 61] Connection refused"),
      AnalyzedResult(S1 \o <<"tool", "discovery">>, "failed", 1,
                     "Connection refused", None),
      AnalyzedResult(S2 \o <<"connectivity">>, "failed", 11, "",
                     "ConnectionError: connect timed out"),
      AnalyzedResult(<<"test", "unknown">>, "error", 1,
                     "Some unknown error occurred",
                     "UnknownError: mysterious failure"),
      AnalyzedResult(<<"test", "unknown">>, "failed", 1,
                     "Some unknown error occurred",
                     "UnknownError: mysterious failure"),
      AnalyzedResult(S1 \o <<"connectivity">>, "skipped", 0,
                     "Connection refused", None) }

\* _match_pattern of every pattern on the error text of every result
confidences ==
    [test_result \in AnalyzedResults |->
        [k \in 1..Len(initialize_patterns) |->
            match_pattern(initialize_patterns[k], error_text(test_result),
                          test_result)]]

\* the issue of a result no pattern recognises
generic_issue(test_result, time) ==
    DetectedIssue(issue_id_of(test_result.test_name, <<"unknown">>, time),
                  "unknown_error", "medium", Hundredths(60),
                  server_of(test_result.test_name), test_result.test_name,
                  test_result.message)

\* one issue for each pattern whose confidence is above 0.5
pattern_issues(test_result, time) ==
    LET matched == SelectSeq([k \in 1..Len(initialize_patterns) |-> k],
                             LAMBDA k : confidences[test_result][k]
                                            > DetectorScale \div 2)
    IN [j \in 1..Len(matched) |->
            LET pattern == initialize_patterns[matched[j]] IN
            DetectedIssue(issue_id_of(test_result.test_name,
                                      pattern.pattern_id, time),
                          pattern.issue_type, pattern.severity,
                          confidences[test_result][matched[j]],
                          server_of(test_result.test_name),
                          test_result.test_name, test_result.message)]

\* a generic issue for a failed result as well
analyze_single_failure_GenericForFailed(test_result, time) ==
    IF pattern_issues(test_result, time) = <<>>
    THEN <<generic_issue(test_result, time)>>
    ELSE pattern_issues(test_result, time)

analyze_single_failure(test_result, time) ==
    LET detected_issues == pattern_issues(test_result, time) IN
    IF detected_issues = <<>> /\ test_result.status = "error"
    THEN <<generic_issue(test_result, time)>>
    ELSE detected_issues

\* the candidate issues of the results that failed or ended in error
RECURSIVE candidate_issues(_, _)
candidate_issues(results, time) ==
    IF results = <<>> THEN <<>>
    ELSE (IF Head(results).status \in {"failed", "error"}
          THEN analyze_single_failure(Head(results), time) ELSE <<>>)
         \o candidate_issues(Tail(results), time)

\* the words of an issue type's value, which are joined by "_"
TypeWords ==
    ("connection_failure" :> <<"connection", "failure">>)
    @@ ("timeout" :> <<"timeout">>)
    @@ ("authentication_error" :> <<"authentication", "error">>)
    @@ ("tool_execution_error" :> <<"tool", "execution", "error">>)
    @@ ("configuration_error" :> <<"configuration", "error">>)
    @@ ("resource_exhaustion" :> <<"resource", "exhaustion">>)
    @@ ("protocol_error" :> <<"protocol", "error">>)
    @@ ("dependency_missing" :> <<"dependency", "missing">>)
    @@ ("permission_denied" :> <<"permission", "denied">>)
    @@ ("unknown_error" :> <<"unknown", "error">>)

\* f"{issue.server_name}_{issue.issue_type.value}"
group_key(issue) == issue.server_name \o TypeWords[issue.issue_type]

\* the keys of the issues, each once, in the order of their first issue
RECURSIVE group_keys(_, _)
group_keys(issues, seen) ==
    IF issues = <<>> THEN <<>>
    ELSE IF group_key(Head(issues)) \in seen THEN group_keys(Tail(issues), seen)
    ELSE <<group_key(Head(issues))>>
         \o group_keys(Tail(issues), seen \cup {group_key(Head(issues))})

\* the boost of a group is not capped
merged_Uncapped(group) ==
    [group[1] EXCEPT
        !.confidence_score = @ + (Len(group) - 1) * (DetectorScale \div 20),
        !.related_issues = [j \in 1..(Len(group) - 1) |-> group[j + 1].issue_id]]

\* a group of several issues loses all but its first issue
merged_Unboosted(group) == group[1]

\* a group of several issues: its first issue, boosted, naming the others
merged(group) ==
    [group[1] EXCEPT
        !.confidence_score =
            Min(@ + (Len(group) - 1) * (DetectorScale \div 20), DetectorScale),
        !.related_issues = [j \in 1..(Len(group) - 1) |-> group[j + 1].issue_id]]

group_related_issues(issues) ==
    LET keys == group_keys(issues, {}) IN
    [k \in 1..Len(keys) |->
        LET group == SelectSeq(issues, LAMBDA i : group_key(i) = keys[k]) IN
        IF Len(group) = 1 THEN group[1] ELSE merged(group)]

analyze_test_failures(results, time) ==
    group_related_issues(candidate_issues(results, time))


\* the most results one call analyses, the most results and recorded issues
\* together when a call adds to a history, and the last second of the clock
MaxResults == 3
MaxIssueHistory == 2
MaxTime == 1

ResultLists == UNION {[1..n -> AnalyzedResults] : n \in 0..MaxResults}

analysisVars == <<issue_history, now, detected>>

healthVars == <<health_metrics, monitored>>

\* the number of issues a history holds, the related ones counted
RECURSIVE recorded(_)
recorded(issues) ==
    IF issues = <<>> THEN 0
    ELSE 1 + Len(Head(issues).related_issues) + recorded(Tail(issues))

\* analyze_test_failures(test_results): the issues go to the history and are
\* returned
AnalyzeTestFailures(test_results) ==
    /\ \/ issue_history = <<>>
       \/ recorded(issue_history) + Len(test_results) <= MaxIssueHistory
    /\ LET grouped_issues == analyze_test_failures(test_results, now) IN
        /\ issue_history' = issue_history \o grouped_issues
        /\ detected' = [results |-> test_results,
                        candidates |-> candidate_issues(test_results, now),
                        issues |-> grouped_issues, time |-> now]
    /\ UNCHANGED <<now, healthVars, testerVars, remVars, perfVars>>

\* a second passes
Tick ==
    /\ now < MaxTime
    /\ now' = now + 1
    /\ UNCHANGED <<issue_history, detected, healthVars, testerVars, remVars, perfVars>>

DetectorInit ==
    /\ TesterInit
    /\ PerformanceIdle
    /\ config.mcp_servers = EmptyDict
    /\ RemediationIdle
    /\ DetectorIdle

DetectorNext ==
    \/ \E test_results \in ResultLists : AnalyzeTestFailures(test_results)
    \/ Tick

SpecDetector == DetectorInit /\ [][DetectorNext]_vars


----------------------------------------------------------------------------
(* Properties of the issue detector's analysis *)

\* the type and the confidence of every issue of a sequence, with its test
Kinds(issues) ==
    [j \in 1..Len(issues) |->
        [test_name |-> issues[j].test_name, issue_type |-> issues[j].issue_type,
         confidence_score |-> issues[j].confidence_score]]

\* what C12 expects of one result
ExpectedOf(test_result) ==
    LET hits == SelectSeq(initialize_patterns,
                          LAMBDA p : match_pattern(p, error_text(test_result),
                                                   test_result) * 2 > DetectorScale)
    IN IF test_result.status \notin {"failed", "error"} THEN <<>>
       ELSE IF hits # <<>>
       THEN [j \in 1..Len(hits) |->
                [test_name |-> test_result.test_name,
                 issue_type |-> hits[j].issue_type,
                 confidence_score |-> match_pattern(hits[j], error_text(test_result),
                                                    test_result)]]
       ELSE IF test_result.status = "error"
       THEN <<[test_name |-> test_result.test_name, issue_type |-> "unknown_error",
               confidence_score |-> Hundredths(60)]>>
       ELSE <<>>

RECURSIVE ExpectedOfAll(_)
ExpectedOfAll(results) ==
    IF results = <<>> THEN <<>>
    ELSE ExpectedOf(Head(results)) \o ExpectedOfAll(Tail(results))

\* C12: the candidate issues of a call of analyze_test_failures are, result by
\* result: for a failed or error result one issue for each pattern whose match
\* confidence on its error text is above 0.5; if there is none and the status
\* is error, exactly one unknown_error issue of confidence 0.6; for a result of
\* any other status, and for a failed result no pattern matches, no issue.
C12_CandidatesPerResult ==
    Kinds(detected.candidates) = ExpectedOfAll(detected.results)

\* an error result no pattern matches, a failed one no pattern matches and a
\* failed one that two patterns match were analysed in one call
C12_Witness ==
    /\ Len(detected.results) = 3
    /\ detected.results[1].status = "error"
    /\ detected.results[2].status = "failed"
    /\ detected.results[2].test_name = <<"test", "unknown">>
    /\ Len(detected.candidates) = 3
    /\ detected.candidates[1].issue_type = "unknown_error"
    /\ detected.candidates[1].confidence_score = Hundredths(60)
    /\ detected.candidates[2].issue_type = "connection_failure"
    /\ detected.candidates[3].issue_type = "timeout"
    /\ detected.candidates[3].test_name = detected.results[3].test_name


\* the candidates of a call that come from the pattern of one issue type
OfType(issue_type) ==
    SelectSeq(detected.candidates, LAMBDA i : i.issue_type = issue_type)

\* 2n times the confidence C13 states for m of the n alternatives matching,
\* before the clamp: 2n*b + (1 - b) * min(m, n) for m > 1, with the additions
Claimed2n(pattern, m, test_result) ==
    LET n == Len(pattern.error_patterns)
        b == pattern.confidence_base
    IN (IF m = 1 THEN 2 * n * b
        ELSE 2 * n * b + (DetectorScale - b) * Min(m, n))
       + (IF pattern.issue_type = "timeout" /\ test_result.execution_time > 10
          THEN 2 * n * (DetectorScale \div 10) ELSE 0)
       + (IF test_result.status = "error"
          THEN 2 * n * (DetectorScale \div 20) ELSE 0)

\* C13: when one failed or error result is analysed, a pattern none of whose
\* alternatives matches the text gives no issue, and a pattern of base b with
\* m of its n alternatives matching gives one issue whose confidence is b for
\* m = 1 and b + (1 - b) * min(m/n, 1) * 0.5 for m > 1, plus 0.10 for a timeout
\* pattern and more than 10 s, plus 0.05 for status error, clamped to [0, 1]
\* and never below b; a result whose text matches only the connection-refused
\* pattern gives exactly one issue, a connection_failure of at least 0.90.
C13_MatchConfidence ==
    (Len(detected.results) = 1 /\ detected.results[1].status \in {"failed", "error"}) =>
        LET test_result == detected.results[1]
            text == error_text(test_result)
            matching == {k \in 1..Len(initialize_patterns) :
                            pattern_matches(initialize_patterns[k], text) > 0}
        IN /\ \A k \in 1..Len(initialize_patterns) :
                LET pattern == initialize_patterns[k]
                    n == Len(pattern.error_patterns)
                    m == pattern_matches(pattern, text)
                    found == OfType(pattern.issue_type)
                IN IF m = 0 THEN found = <<>>
                   ELSE /\ Len(found) = 1
                        /\ 2 * n * found[1].confidence_score
                               = Min(Claimed2n(pattern, m, test_result),
                                     2 * n * DetectorScale)
                        /\ found[1].confidence_score >= pattern.confidence_base
                        /\ found[1].confidence_score \in 0..DetectorScale
           /\ matching = {1} =>
                /\ Len(detected.candidates) = 1
                /\ detected.candidates[1].issue_type = "connection_failure"
                /\ detected.candidates[1].confidence_score >= Hundredths(90)

\* a failed result with two of the seven connection alternatives matching was
\* analysed: its confidence lies strictly between the base and 1
C13_Witness ==
    /\ Len(detected.results) = 1
    /\ detected.results[1].status = "failed"
    /\ pattern_matches(initialize_patterns[1], error_text(detected.results[1])) = 2
    /\ Len(detected.candidates) = 1
    /\ detected.candidates[1].issue_type = "connection_failure"
    /\ detected.candidates[1].confidence_score > initialize_patterns[1].confidence_base
    /\ detected.candidates[1].confidence_score < DetectorScale


\* the candidates of the last call with the key of a given issue
SameKey(issue) ==
    SelectSeq(detected.candidates,
              LAMBDA i : i.server_name = issue.server_name
                         /\ i.issue_type = issue.issue_type)

\* the distinct (server_name, issue_type) pairs of the candidates
CandidateKeys ==
    {<<detected.candidates[j].server_name, detected.candidates[j].issue_type>> :
        j \in 1..Len(detected.candidates)}

\* C14: the issues a call of analyze_test_failures returns are one for each
\* distinct (server_name, issue_type) of its candidates: the first candidate
\* of that key, with confidence min(original + 0.05 * (k - 1), 1.0) and
\* related_issues the ids of the other k - 1 candidates of the key, k being
\* their number; candidates of different keys are not merged.
C14_OnePerKey ==
    /\ Len(detected.issues) = Cardinality(CandidateKeys)
    /\ \A a, b \in 1..Len(detected.issues) :
            (detected.issues[a].server_name = detected.issues[b].server_name
             /\ detected.issues[a].issue_type = detected.issues[b].issue_type)
                => a = b
    /\ \A a \in 1..Len(detected.issues) :
            LET group == SameKey(detected.issues[a])
                k == Len(group)
            IN /\ k >= 1
               /\ detected.issues[a].issue_id = group[1].issue_id
               /\ detected.issues[a].test_name = group[1].test_name
               /\ detected.issues[a].confidence_score
                      = Min(group[1].confidence_score + (k - 1) * Hundredths(5),
                            DetectorScale)
               /\ detected.issues[a].related_issues
                      = [j \in 1..(k - 1) |-> group[j + 1].issue_id]

\* three candidates of one server and type were collapsed into one issue with
\* two related ids, its confidence raised by 0.10 and still below 1
C14_Witness ==
    /\ Len(detected.candidates) = 3
    /\ Len(detected.issues) = 1
    /\ Len(detected.issues[1].related_issues) = 2
    /\ detected.issues[1].confidence_score
           = detected.candidates[1].confidence_score + Hundredths(10)
    /\ detected.issues[1].confidence_score < DetectorScale


\* the ids of all the issues the detector has created and kept: the recorded
\* issues and, after each, the issues merged into it
RECURSIVE CreatedIds(_)
CreatedIds(issues) ==
    IF issues = <<>> THEN <<>>
    ELSE <<Head(issues).issue_id>> \o Head(issues).related_issues
         \o CreatedIds(Tail(issues))

\* C15: issue ids are unique: any two distinct issues the detector created, in
\* one call of analyze_test_failures or in different calls, have different
\* issue_id values.
C15_UniqueIds ==
    \A a, b \in 1..Len(CreatedIds(issue_history)) :
        CreatedIds(issue_history)[a] = CreatedIds(issue_history)[b] => a = b


----------------------------------------------------------------------------
(* MCPIssueDetector: monitor_server_health.

   The success rates and the average response time are fractions
   [num, den]: the moving average 0.8 * r + 0.2 * s of r = num / den is
   (4 * num + s * den) / (5 * den). *)

\* the deadline of the connectivity probe, in seconds
HealthTimeout == 5

\* the most moving-average updates a record takes
MaxUpdates == 2

Fraction(num, den) == [num |-> num, den |-> den]

\* the previous value is kept whole: rate + 0.2 * sample
moving_average_Undamped(rate, sample) ==
    Fraction(5 * rate.num + sample * rate.den, 5 * rate.den)

\* 0.8 * rate + 0.2 * sample
moving_average(rate, sample) == Fraction(4 * rate.num + sample * rate.den, 5 * rate.den)

SameFraction(a, b) == a.num * b.den = b.num * a.den

HealthMetrics(server_name, connection_success_rate, tool_execution_success_rate, average_response_time, error_count, warning_count, uptime_percentage, last_successful_connection, consecutive_failures) ==
    [server_name |-> server_name,
     connection_success_rate |-> connection_success_rate,
     tool_execution_success_rate |-> tool_execution_success_rate,
     average_response_time |-> average_response_time,
     error_count |-> error_count, warning_count |-> warning_count,
     uptime_percentage |-> uptime_percentage,
     last_successful_connection |-> last_successful_connection,
     consecutive_failures |-> consecutive_failures]

\* what a probe meets: the toolkit cannot be built from the server
\* configuration; the session raises or does not start within the deadline;
\* the listing raises, or lists no tool, or lists tools
HealthOutcomes ==
    {"construction_raises", "session_raises", "session_times_out",
     "listing_raises", "no_tools", "tools"}

\* the seconds a probe takes
ResponseTimes(outcome) ==
    IF outcome = "session_times_out" THEN {HealthTimeout} ELSE {1}

connection_success(outcome) == outcome \in {"listing_raises", "no_tools", "tools"}

tool_execution_success(outcome) == outcome = "tools"

error_count_of(outcome) ==
    IF outcome \in {"session_raises", "session_times_out", "listing_raises"}
    THEN 1 ELSE 0

warning_count_of(outcome) == IF outcome = "no_tools" THEN 1 ELSE 0

Sample(success) == IF success THEN 1 ELSE 0

\* the existing record, updated in place
updated_metrics(current_metrics, outcome, response_time) ==
    [current_metrics EXCEPT
        !.connection_success_rate =
            moving_average(@, Sample(connection_success(outcome))),
        !.tool_execution_success_rate =
            moving_average(@, Sample(tool_execution_success(outcome))),
        !.average_response_time = moving_average(@, response_time),
        !.error_count = @ + error_count_of(outcome),
        !.warning_count = @ + warning_count_of(outcome),
        !.last_successful_connection =
            IF connection_success(outcome) THEN "now" ELSE @,
        !.consecutive_failures =
            IF connection_success(outcome) THEN 0 ELSE @ + 1]

\* the record of a server's first probe
new_metrics(server_name, outcome, response_time) ==
    HealthMetrics(server_name,
                  Fraction(Sample(connection_success(outcome)), 1),
                  Fraction(Sample(tool_execution_success(outcome)), 1),
                  Fraction(response_time, 1),
                  error_count_of(outcome), warning_count_of(outcome),
                  IF connection_success(outcome) THEN 100 ELSE 0,
                  IF connection_success(outcome) THEN "now" ELSE None,
                  IF connection_success(outcome) THEN 0 ELSE 1)

\* the record the outer handler stores
error_metrics(server_name, response_time) ==
    HealthMetrics(server_name, Fraction(0, 1), Fraction(0, 1),
                  Fraction(response_time, 1), 1, 0, 0, None, 1)

monitor_server_health(server_name, outcome, response_time) ==
    IF outcome = "construction_raises"
    THEN error_metrics(server_name, response_time)
    ELSE IF server_name \in DOMAIN health_metrics
    THEN updated_metrics(health_metrics[server_name], outcome, response_time)
    ELSE new_metrics(server_name, outcome, response_time)

\* monitor_server_health(server_config, server_name): the record is stored
\* under the server's name and returned
MonitorServerHealth(server_name, outcome, response_time) ==
    /\ server_name \in DOMAIN health_metrics =>
            health_metrics[server_name].connection_success_rate.den
                < Power(5, MaxUpdates)
    /\ LET current_metrics == monitor_server_health(server_name, outcome, response_time)
       IN health_metrics' =
            [s \in DOMAIN health_metrics \cup {server_name} |->
                IF s = server_name THEN current_metrics ELSE health_metrics[s]]
    /\ monitored' = [server_name |-> server_name, outcome |-> outcome,
                     response_time |-> response_time]
    /\ UNCHANGED <<analysisVars, testerVars, remVars, perfVars>>

HealthInit ==
    /\ TesterInit
    /\ PerformanceIdle
    /\ config.mcp_servers = EmptyDict
    /\ RemediationIdle
    /\ DetectorIdle

HealthNext ==
    \E server_name \in {S1, S2} : \E outcome \in HealthOutcomes :
        \E response_time \in ResponseTimes(outcome) :
            MonitorServerHealth(server_name, outcome, response_time)

SpecHealth == HealthInit /\ [][HealthNext]_vars


----------------------------------------------------------------------------
(* Properties of the health monitoring *)

\* consecutive_failures of a server before it has a record
FailuresBefore(server_name) ==
    IF server_name \in DOMAIN health_metrics
    THEN health_metrics[server_name].consecutive_failures ELSE 0

\* C17: consecutive_failures of a server is the number of its probes that
\* failed since its last successful probe: every probe that connects sets it
\* to 0 and every probe that fails, whatever the reason, raises it by exactly 1.
C17_ConsecutiveFailures ==
    [][LET server_name == monitored'.server_name IN
       health_metrics'[server_name].consecutive_failures =
            IF connection_success(monitored'.outcome) THEN 0
            ELSE FailuresBefore(server_name) + 1]_vars

\* C18: there is one record per server; the first probe of a server sets each
\* success rate to the probe's sample, every later probe of it sets each
\* success rate and the average response time to 0.8 * previous + 0.2 * sample,
\* and the records of the other servers stay as they are.
C18_MovingAverage ==
    [][LET server_name == monitored'.server_name
           connection == Sample(connection_success(monitored'.outcome))
           listing == Sample(tool_execution_success(monitored'.outcome))
           after == health_metrics'[server_name]
       IN /\ DOMAIN health_metrics' = DOMAIN health_metrics \cup {server_name}
          /\ \A s \in DOMAIN health_metrics \ {server_name} :
                health_metrics'[s] = health_metrics[s]
          /\ after.server_name = server_name
          /\ IF server_name \notin DOMAIN health_metrics
             THEN /\ SameFraction(after.connection_success_rate, Fraction(connection, 1))
                  /\ SameFraction(after.tool_execution_success_rate, Fraction(listing, 1))
             ELSE LET before == health_metrics[server_name] IN
                  /\ SameFraction(after.connection_success_rate,
                                  Fraction(4 * before.connection_success_rate.num
                                             + connection * before.connection_success_rate.den,
                                           5 * before.connection_success_rate.den))
                  /\ SameFraction(after.tool_execution_success_rate,
                                  Fraction(4 * before.tool_execution_success_rate.num
                                             + listing * before.tool_execution_success_rate.den,
                                           5 * before.tool_execution_success_rate.den))
                  /\ SameFraction(after.average_response_time,
                                  Fraction(4 * before.average_response_time.num
                                             + monitored'.response_time
                                                 * before.average_response_time.den,
                                           5 * before.average_response_time.den))]_vars


----------------------------------------------------------------------------
(* The tester, the remediation engine and the detector share no state: the
   whole system runs one of them from its initial state. *)

\* get_success_rate(issue_type): the share of the relevant results that
\* succeeded; with an issue type given the relevant results are still the
\* whole history (`if issue_type: pass`)
get_success_rate(history, issue_type) ==
    LET relevant_results == IF issue_type # None THEN history ELSE history IN
    IF relevant_results = <<>> THEN Fraction(0, 1)
    ELSE Fraction(Cardinality({i \in 1..Len(relevant_results) :
                                  relevant_results[i].status = "success"}),
                  Len(relevant_results))

\* the most requests of each kind a load test counts
MaxRequests == 3

\* PerformanceMetrics.calculate_derived_metrics: success_rate
success_rate(success_count, failure_count, error_count) ==
    LET total_requests == success_count + failure_count + error_count IN
    IF total_requests > 0 THEN Fraction(success_count, total_requests)
    ELSE Fraction(0, 1)

TesterUntouched ==
    /\ active_toolkits = EmptyDict
    /\ toolkits = EmptyDict
    /\ open_sessions = {}
    /\ stack = <<>>
    /\ pending = NoCall
    /\ ret = NoRet
    /\ returned = NoReturned

AnalysisIdle == issue_history = <<>> /\ now = 0 /\ detected = NoAnalysis

HealthIdle == health_metrics = EmptyDict /\ monitored = NoProbe

SystemInit == Init \/ RemediationInit \/ DetectorInit \/ HealthInit

TesterRuns == RemediationIdle /\ DetectorIdle /\ Next

RemediationRuns ==
    /\ TesterUntouched /\ DetectorIdle
    /\ remediation_strategies # EmptyDict
    /\ RemediationNext

AnalysisRuns ==
    /\ TesterUntouched /\ RemediationIdle /\ HealthIdle
    /\ config.mcp_servers = EmptyDict
    /\ DetectorNext

HealthRuns ==
    /\ TesterUntouched /\ RemediationIdle /\ AnalysisIdle
    /\ config.mcp_servers = EmptyDict
    /\ HealthNext

SystemNext == TesterRuns \/ RemediationRuns \/ AnalysisRuns \/ HealthRuns

SpecSystem == SystemInit /\ [][SystemNext]_vars

\* a fraction between 0 and 1
InUnit(rate) == rate.den > 0 /\ rate.num >= 0 /\ rate.num <= rate.den

\* the TestResults a public operation of the tester has returned
ReturnedResults ==
    IF returned.completion.kind # "return" THEN {}
    ELSE IF returned.op \in {"connectivity", "discovery", "execution", "validate"}
    THEN {returned.completion.value}
    ELSE UNION {{suite.results[i] : i \in 1..Len(suite.results)} : suite \in ReturnedSuites}

\* C16: in every reachable state every confidence and every rate lies in
\* [0, 1]: the confidence of every TestResult and the overall confidence of
\* every suite returned, of every issue found or recorded (boosted or not), of
\* every RemediationResult returned or recorded, the two success rates of
\* every HealthMetrics record, the success rate of the remediation history and
\* the success rate of a load test's counts.
C16_RatesInUnit ==
    /\ \A result \in ReturnedResults : result.confidence_score \in 0..100
    /\ \A suite \in ReturnedSuites :
            /\ suite.overall_confidence.den > 0
            /\ suite.overall_confidence.num >= 0
            /\ suite.overall_confidence.num <= 100 * suite.overall_confidence.den
    /\ \A i \in 1..Len(detected.candidates) :
            detected.candidates[i].confidence_score \in 0..DetectorScale
    /\ \A i \in 1..Len(detected.issues) :
            detected.issues[i].confidence_score \in 0..DetectorScale
    /\ \A i \in 1..Len(issue_history) :
            issue_history[i].confidence_score \in 0..DetectorScale
    /\ rem_returned.confidence_score \in 0..1000
    /\ \A i \in 1..Len(remediation_history) :
            remediation_history[i].confidence_score \in 0..1000
    /\ InUnit(get_success_rate(remediation_history, None))
    /\ \A s \in DOMAIN health_metrics :
            /\ InUnit(health_metrics[s].connection_success_rate)
            /\ InUnit(health_metrics[s].tool_execution_success_rate)
    /\ \A success_count, failure_count, error_count \in 0..MaxRequests :
            InUnit(success_rate(success_count, failure_count, error_count))

\* a server's success rates lie strictly between 0 and 1 after moving-average
\* updates of both kinds
C16_Witness ==
    \E s \in DOMAIN health_metrics :
        /\ health_metrics[s].connection_success_rate.den = 25
        /\ health_metrics[s].connection_success_rate.num = 21
        /\ health_metrics[s].tool_execution_success_rate.num = 5


----------------------------------------------------------------------------
(* Further properties of the remediation engine *)

TerminalStatus == {"success", "failed", "partial_success", "skipped"}

\* where the i-th attempt of the running remediate_issue stands: its result
\* is recorded, its action is running, or it has not begun
attempt_status(history, r, i) ==
    IF i < r.i THEN Attempted(history, r)[i].status
    ELSE IF i = r.i THEN "in_progress"
    ELSE "pending"

C19_Step ==
    /\ \A k \in 1..Len(remediation_history') :
            remediation_history'[k].status \in TerminalStatus
    /\ rem_returned'.action_id # "none" => rem_returned'.status \in TerminalStatus
    /\ Len(remediation_history') >= Len(remediation_history)
    /\ SubSeq(remediation_history', 1, Len(remediation_history)) = remediation_history
    /\ (rem.pc # "none" /\ rem'.pc # "none") =>
            /\ rem'.actions = rem.actions
            /\ \A i \in 1..Len(rem.actions) :
                  LET before == attempt_status(remediation_history, rem, i)
                      after == attempt_status(remediation_history', rem', i)
                  IN /\ before = "pending" => after \in {"pending", "in_progress"}
                     /\ before = "in_progress" =>
                            after \in {"in_progress"} \cup TerminalStatus
                     /\ before \in TerminalStatus => after = before
    /\ RemediateReturns =>
            /\ remediation_history' = Append(remediation_history,
                                             Last(remediation_history'))
            /\ Last(remediation_history').action_id = rem.actions[rem.i].action_id
            /\ Last(remediation_history').status \in TerminalStatus

\* C19: each attempt of remediate_issue goes from pending (its action is not
\* yet in hand) to in progress (its action runs) to exactly one of success,
\* failed, partial_success and skipped (its result is recorded): every result
\* returned or recorded has one of these four statuses, and a recorded result
\* is never changed or removed.
C19_AttemptLifecycle == [][C19_Step]_vars

\* the first attempt of a call has failed, its second attempt is in progress
\* and a third is still pending
C19_Witness ==
    /\ rem.pc # "none"
    /\ rem.i = 2
    /\ Len(rem.actions) >= 3
    /\ remediation_history # <<>>
    /\ attempt_status(remediation_history, rem, 1) = "failed"
    /\ attempt_status(remediation_history, rem, 2) = "in_progress"
    /\ attempt_status(remediation_history, rem, 3) = "pending"

C20_Step ==
    \A issue \in Issues :
        (CallRemediateIssue(issue)
         /\ get_remediation_actions(remediation_strategies, issue) = <<>>) =>
            /\ rem_returned'.status = "skipped"
            /\ rem_returned'.action_id = "no_action"
            /\ rem_returned'.issue_id = issue.issue_id
            /\ rem' = NoRemediation
            /\ remediation_history' = remediation_history
            /\ probes' = probes
            /\ remediation_strategies' = remediation_strategies
            /\ retry_configs' = retry_configs

\* C20: remediate_issue for an issue whose type has no candidate actions, the
\* type being absent from the table or mapped to an empty list, returns a
\* skipped result at once: no action is executed, no connectivity probe is
\* made and the history stays as it is.
C20_NoCandidatesSkipped == [][C20_Step]_vars

\* a call for a type whose candidates had been cleared returned skipped after
\* an earlier call had recorded results
C20_Witness ==
    /\ rem_returned.action_id = "no_action"
    /\ rem_returned.status = "skipped"
    /\ "unknown_error" \in DOMAIN remediation_strategies
    /\ remediation_strategies["unknown_error"] = <<>>
    /\ remediation_history # <<>>
    /\ rem = NoRemediation


----------------------------------------------------------------------------
(* The result of remediate_issue when connectivity holds *)

C21_Step ==
    (RemediateReturns /\ probes_ok') =>
        /\ rem_returned'.status \in {"success", "partial_success"}
        /\ rem_returned'.issue_id = rem.issue.issue_id

\* C21: whenever the connectivity probe succeeds on every call, remediate_issue
\* for an issue whose type has at least one candidate action returns a result
\* with status success or partial_success, never failed or skipped, that
\* carries the issue's id.
C21_SucceedsWhenConnected == [][C21_Step]_vars


----------------------------------------------------------------------------
(* The delays of the retry strategy *)

\* an iteration of the retry loop is made in this step
RetryIteration == rem.pc = "retry" /\ Len(probes') = Len(probes) + 1

\* the retry strategy returns in this step
RetryReturns == rem.pc = "retry" /\ ActionExecuted

\* min(base_delay * exponential_base^(a-1), max_delay), in microseconds
ClaimedDelay(c, a) ==
    Min((c.base_delay * 1000 * Power(c.exponential_base, a - 1)) \div Power(2, a - 1),
        c.max_delay * 1000)

\* the delay d is the claimed one for loop index a, times a factor between
\* 0.5 and 1.0 when jitter is enabled; `closed`: the factor may be 1.0
DelayAsClaimed(c, a, d, closed) ==
    IF c.jitter
    THEN /\ ClaimedDelay(c, a) <= 2 * d
         /\ IF closed THEN d <= ClaimedDelay(c, a) ELSE d < ClaimedDelay(c, a)
    ELSE d = ClaimedDelay(c, a)

\* the steps of a retry loop whose loop index is rem.attempt.  `closed`: the
\* jitter factor may be 1.0; `growing`: the configurations whose un-jittered
\* delays are said not to decrease; `probing`: the numbers of probes for
\* which there is one sleep less
C22_Delays(closed, growing, probing) ==
    /\ (RetryIteration /\ rem.attempt = 0) => sleeps' = sleeps /\ sleeps = <<>>
    /\ (RetryIteration /\ rem.attempt > 0) =>
          /\ Len(sleeps') = Len(sleeps) + 1
          /\ SubSeq(sleeps', 1, Len(sleeps)) = sleeps
          /\ DelayAsClaimed(rem.retry_config, rem.attempt, Last(sleeps'), closed)
          /\ Last(sleeps') <= rem.retry_config.max_delay * 1000
          /\ (~rem.retry_config.jitter /\ rem.retry_config \in growing
              /\ sleeps # <<>>) => Last(sleeps') >= Last(sleeps)
    /\ RetryIteration => Len(sleeps') = Len(probes') - 1
    /\ (RetryReturns /\ ~RetryIteration) =>
          /\ sleeps' = sleeps
          /\ Len(probes) \in probing => Len(sleeps) = Len(probes) - 1

\* all retry configurations
AnyRetryConfig == RetryConfigs \cup RetryOverrides(S2) \cup {DefaultRetryConfig}

\* C22 as stated: in the retry strategy no delay precedes the first probe, and
\* the delay slept for attempt a is min(base_delay * exponential_base^(a-1),
\* max_delay), multiplied by a jitter factor in [0.5, 1.0) when jitter is
\* enabled; hence no delay ever exceeds max_delay, un-jittered delays never
\* decrease from one attempt to the next, and the number of sleeps is one less
\* than the number of probes.
C22_Original == [][C22_Delays(FALSE, AnyRetryConfig, 0..MaxAttempts)]_vars

\* C22 as amended: no delay precedes the first probe (loop index 0), and the
\* delay slept before the probe of loop index a >= 1 is
\* min(base_delay * exponential_base^(a-1), max_delay), multiplied by a jitter
\* factor in [0.5, 1.0] when jitter is enabled; hence no delay exceeds
\* max_delay, un-jittered delays never decrease from one attempt to the next
\* when exponential_base >= 1, and the number of sleeps is one less than the
\* number of probes whenever a probe is made.
C22_RetryDelays ==
    [][C22_Delays(TRUE, {c \in AnyRetryConfig : c.exponential_base >= 2},
                  1..MaxAttempts)]_vars

\* three probes were made with the un-jittered delays 1.0 s and then 1.5 s,
\* the second one cut to max_delay
C22_Witness ==
    /\ Len(probes) = 3
    /\ sleeps = <<1000000, 1500000>>


----------------------------------------------------------------------------
(* The retry configuration in force *)

\* the configuration set for a server, or the defaults
ConfigurationOf(configs, server_name) ==
    IF server_name \in DOMAIN configs THEN configs[server_name]
    ELSE [max_attempts |-> 3, base_delay |-> 1000, max_delay |-> 60000,
          exponential_base |-> 4, jitter |-> TRUE]

C23_Step ==
    /\ (rem.pc = "action" /\ rem'.pc = "retry") =>
          /\ rem'.retry_config = ConfigurationOf(retry_configs, rem.issue.server_name)
          /\ rem'.max_attempts = rem'.retry_config.max_attempts
          /\ rem.issue.server_name \notin DOMAIN retry_configs =>
                /\ rem'.retry_config.max_attempts = 3
                /\ rem'.retry_config.base_delay = 1000
                /\ rem'.retry_config.exponential_base = 4
    /\ (rem.pc = "retry" /\ rem'.pc = "retry") =>
          /\ rem'.retry_config = rem.retry_config
          /\ Len(probes') <= rem.retry_config.max_attempts
    /\ RetryReturns => Len(probes') <= rem.retry_config.max_attempts
    /\ \A s \in RetryConfigured : \A c \in RetryOverrides(s) :
          SetRetryConfig(s, c) =>
              /\ ConfigurationOf(retry_configs', s) = c
              /\ \A t \in RetryConfigured \ {s} :
                    ConfigurationOf(retry_configs', t)
                        = ConfigurationOf(retry_configs, t)

\* C23: after set_retry_config(S, c) a retry remediation of an issue detected
\* on server S uses c, so it makes at most c.max_attempts probes; the retry
\* for a server without an override uses the defaults max_attempts = 3,
\* base_delay = 1.0 and exponential_base = 2.0; and setting the override of S
\* leaves the configuration used for any other server as it was.
C23_RetryConfigPerServer == [][C23_Step]_vars

\* both servers have their own configuration, and a retry for an issue of the
\* first server has made all the probes its configuration allows, fewer than
\* the default
C23_Witness ==
    /\ DOMAIN retry_configs = {S1, S2}
    /\ retry_configs[S1] # retry_configs[S2]
    /\ rem.pc = "retry"
    /\ rem.issue.server_name = S1
    /\ rem.retry_config = retry_configs[S1]
    /\ rem.retry_config.max_attempts = 2
    /\ Len(probes) = 2


----------------------------------------------------------------------------
(* The success rate of the remediation history *)

\* the issue type an attempt was made for: the type whose candidates hold the
\* attempt's action
AttemptedFor(result) ==
    CHOOSE t \in DOMAIN initialize_strategies :
        \E k \in 1..Len(initialize_strategies[t]) :
            initialize_strategies[t][k].action_id = result.action_id

\* the attempts of the history that the rate for issue_type is about
AttemptsOf(history, issue_type) ==
    IF issue_type = None THEN history
    ELSE SelectSeq(history, LAMBDA result : AttemptedFor(result) = issue_type)

\* successes divided by attempts, 0.0 without attempts
ClaimedRate(attempts) ==
    IF attempts = <<>> THEN Fraction(0, 1)
    ELSE Fraction(Len(SelectSeq(attempts, LAMBDA result : result.status = "success")),
                  Len(attempts))

\* C24: get_success_rate() is the number of history entries with status
\* success divided by the number of all history entries, and 0.0 when the
\* history is empty; get_success_rate(t) for an issue type t counts only the
\* attempts made for issues of type t.
C24_SuccessRate ==
    \A issue_type \in DOMAIN initialize_strategies \cup {None} :
        SameFraction(get_success_rate(remediation_history, issue_type),
                     ClaimedRate(AttemptsOf(remediation_history, issue_type)))


----------------------------------------------------------------------------
(* Exceptions of remediation actions *)

\* executing the action in hand raises in the environment env
ActionRaises(action, env) ==
    \/ env.raises # "none"
    \/ action.strategy = "permission_fix" /\ env.path = "raises"

\* C25: if executing a candidate remediation action raises an exception, the
\* attempt yields a failed RemediationResult carrying error_info, the result
\* is recorded in the history, the remaining candidates are still tried (the
\* next one is in hand, or the list is exhausted and the synthetic failed
\* result is returned), and remediate_issue itself returns a result.
C25_ExceptionsBecomeResults ==
    (rem.pc = "action" /\ CurrentAction(R).strategy # "retry") =>
        \A env \in Environments :
            ActionRaises(CurrentAction(R), env) =>
                LET after == Executed(R, env)
                    attempt == Last(after.remediation_history)
                IN /\ after.remediation_history = Append(remediation_history, attempt)
                   /\ attempt.status = "failed"
                   /\ attempt.error_info = Traceback
                   /\ attempt.action_id = CurrentAction(R).action_id
                   /\ attempt.issue_id = rem.issue.issue_id
                   /\ IF rem.i < Len(rem.actions)
                      THEN /\ after.rem = [rem EXCEPT !.i = @ + 1]
                           /\ after.rem_returned = NoResult
                      ELSE /\ after.rem = NoRemediation
                           /\ after.rem_returned = AllFailed(rem.issue)
                   /\ after.rem_returned.status \in RemediationStatus

\* an action raised, its failed result with error_info is in the history, and
\* the candidate after it was executed and succeeded
C25_Witness ==
    /\ Len(remediation_history) >= 2
    /\ remediation_history[1].status = "failed"
    /\ remediation_history[1].error_info = Traceback
    /\ remediation_history[2].issue_id = remediation_history[1].issue_id
    /\ remediation_history[2].action_id # remediation_history[1].action_id
    /\ remediation_history[2].status = "success"
    /\ rem_returned = remediation_history[2]


----------------------------------------------------------------------------
(* MCPPerformanceTester: test_concurrent_connections.  Success rates are in  *)
(* hundredths; a load test is seen from outside, by the success rate of its  *)
(* metrics or by the exception that leaves it.                               *)

\* PerformanceTestConfig: the fields the concurrency test reads
PerformanceTestConfig(max_concurrent_connections, min_success_rate) ==
    [max_concurrent_connections |-> max_concurrent_connections,
     min_success_rate |-> min_success_rate]

\* the configurations of the tester: the maximum of the test fixture, one
\* above the last fixed level and the default; a minimum success rate below
\* the 0.5 at which the escalation stops, the fixture's 0.90 and the default
PerformanceConfigs ==
    {PerformanceTestConfig(m, r) : m \in {10, 31, 50}, r \in {40, 90, 95}}

\* the success rates a load test may end with
SuccessRates == {0, 45, 50, 90, 100}

\* connection_levels = [1, 5, 10, 20, 30], and the configured maximum when it
\* is above 30
connection_levels(cfg) ==
    IF cfg.max_concurrent_connections > 30
    THEN <<1, 5, 10, 20, 30, cfg.max_concurrent_connections>>
    ELSE <<1, 5, 10, 20, 30>>

LoadTestResult(concurrent_users, rate) ==
    [concurrent_users |-> concurrent_users, success_rate |-> rate]

\* the analysis of the results goes on after a level below the minimum
RECURSIVE analyze_load_test_results_NoBreak(_, _, _)
analyze_load_test_results_NoBreak(results, cfg, found) ==
    IF results = <<>> THEN found
    ELSE IF Head(results).success_rate >= cfg.min_success_rate
    THEN analyze_load_test_results_NoBreak(
             Tail(results), cfg,
             [found EXCEPT !.max_stable_connections = Head(results).concurrent_users])
    ELSE analyze_load_test_results_NoBreak(
             Tail(results), cfg,
             [found EXCEPT !.performance_breakdown_point = Head(results).concurrent_users])

\* the analysis of the results: the last level at or above the minimum success
\* rate before the first level below it, which is the breakdown point (0: None)
RECURSIVE analyze_load_test_results(_, _, _)
analyze_load_test_results(results, cfg, found) ==
    IF results = <<>> THEN found
    ELSE IF Head(results).success_rate >= cfg.min_success_rate
    THEN analyze_load_test_results(
             Tail(results), cfg,
             [found EXCEPT !.max_stable_connections = Head(results).concurrent_users])
    ELSE [found EXCEPT !.performance_breakdown_point = Head(results).concurrent_users]

\* the TestResult of the concurrency test, confidence in hundredths
ConcurrencyResult(results, cfg) ==
    LET found == analyze_load_test_results(
                     results, cfg,
                     [max_stable_connections |-> 0, performance_breakdown_point |-> 0])
    IN [status |-> IF found.max_stable_connections >= 5 THEN "passed" ELSE "failed",
        confidence_score |-> IF found.max_stable_connections >= 10 THEN 90
                             ELSE IF found.max_stable_connections >= 5 THEN 80
                             ELSE 85,
        max_stable_connections |-> found.max_stable_connections,
        performance_breakdown_point |-> found.performance_breakdown_point,
        load_test_results |-> results]

\* the escalation goes on after a level below 0.5
LoadTestReturned_NoStop(c, cfg, rate) ==
    LET level == c.connection_levels[Len(c.load_test_results) + 1]
        results == Append(c.load_test_results, LoadTestResult(level, rate))
    IN IF Len(results) = Len(c.connection_levels)
       THEN [concurrency |-> NoConcurrency,
             concurrency_result |-> ConcurrencyResult(results, cfg)]
       ELSE [concurrency |-> [c EXCEPT !.load_test_results = results],
             concurrency_result |-> NoConcurrencyResult]

\* the loop body of the escalation after the load test of the level in hand
\* returned: the result is kept, and the loop ends when the success rate is
\* below 0.5 or the levels are exhausted
LoadTestReturned(c, cfg, rate) ==
    LET level == c.connection_levels[Len(c.load_test_results) + 1]
        results == Append(c.load_test_results, LoadTestResult(level, rate))
    IN IF rate < 50 \/ Len(results) = Len(c.connection_levels)
       THEN [concurrency |-> NoConcurrency,
             concurrency_result |-> ConcurrencyResult(results, cfg)]
       ELSE [concurrency |-> [c EXCEPT !.load_test_results = results],
             concurrency_result |-> NoConcurrencyResult]

\* the tester is constructed with a configuration
CallConstructPerformanceTester(cfg) ==
    /\ perf_config = NoPerformanceConfig
    /\ perf_config' = cfg
    /\ UNCHANGED <<concurrency, concurrency_result, load, resVars, testerVars, remVars,
                   detVars, calc>>

CallTestConcurrentConnections ==
    /\ perf_config # NoPerformanceConfig
    /\ concurrency.pc = "none"
    /\ concurrency' = [pc |-> "load",
                       connection_levels |-> connection_levels(perf_config),
                       load_test_results |-> <<>>]
    /\ concurrency_result' = NoConcurrencyResult
    /\ UNCHANGED <<perf_config, load, resVars, testerVars, remVars,
                   detVars, calc>>

\* _run_load_test of the level in hand returns
LoadTestEnds ==
    /\ concurrency.pc = "load"
    /\ \E rate \in SuccessRates :
          LET after == LoadTestReturned(concurrency, perf_config, rate) IN
              /\ concurrency' = after.concurrency
              /\ concurrency_result' = after.concurrency_result
    /\ UNCHANGED <<perf_config, load, resVars, testerVars, remVars,
                   detVars, calc>>

\* an exception leaves _run_load_test: the test returns an error result
LoadTestRaises ==
    /\ concurrency.pc = "load"
    /\ concurrency' = NoConcurrency
    /\ concurrency_result' =
            [status |-> "error", confidence_score |-> 80, max_stable_connections |-> 0,
             performance_breakdown_point |-> 0,
             load_test_results |-> concurrency.load_test_results]
    /\ UNCHANGED <<perf_config, load, resVars, testerVars, remVars,
                   detVars, calc>>

PerformanceInit ==
    /\ TesterInit
    /\ config.mcp_servers = EmptyDict
    /\ RemediationIdle
    /\ DetectorIdle
    /\ PerformanceIdle

PerformanceNext ==
    \/ \E cfg \in PerformanceConfigs : CallConstructPerformanceTester(cfg)
    \/ CallTestConcurrentConnections
    \/ LoadTestEnds
    \/ LoadTestRaises

SpecPerformance == PerformanceInit /\ [][PerformanceNext]_vars


----------------------------------------------------------------------------
(* Properties of the concurrency escalation *)

\* the levels of the escalation as the claim lists them
ClaimedLevels(cfg) ==
    <<1, 5, 10, 20, 30>>
        \o (IF cfg.max_concurrent_connections > 30
            THEN <<cfg.max_concurrent_connections>> ELSE <<>>)

\* the load tests made are those of the first levels, in order, and each but
\* the last ended with a success rate of at least 0.5
EscalatedInOrder(results, cfg) ==
    /\ Len(results) <= Len(ClaimedLevels(cfg))
    /\ \A k \in 1..Len(results) :
          /\ results[k].concurrent_users = ClaimedLevels(cfg)[k]
          /\ k < Len(results) => results[k].success_rate >= 50

\* C26: test_concurrent_connections attempts the levels in the fixed ascending
\* order 1, 5, 10, 20, 30 followed by the configured maximum when it exceeds
\* 30; as soon as a level ends with success_rate < 0.5 no higher level is
\* attempted, and a level is attempted only if every lower level was attempted
\* and ended with success_rate >= 0.5.
C26_EscalationOrder ==
    /\ concurrency.pc = "load" =>
          /\ concurrency.connection_levels = ClaimedLevels(perf_config)
          /\ EscalatedInOrder(concurrency.load_test_results, perf_config)
          /\ Len(concurrency.load_test_results) < Len(ClaimedLevels(perf_config))
          /\ \A k \in 1..Len(concurrency.load_test_results) :
                concurrency.load_test_results[k].success_rate >= 50
    /\ concurrency_result.status # "none" =>
          EscalatedInOrder(concurrency_result.load_test_results, perf_config)
    /\ concurrency_result.status \in {"passed", "failed"} =>
          LET results == concurrency_result.load_test_results IN
              /\ results # <<>>
              /\ \/ Last(results).success_rate < 50
                 \/ Len(results) = Len(ClaimedLevels(perf_config))

\* the escalation returned after level 10 ended with a success rate of 0.45,
\* with the levels 20, 30 and 50 never attempted
C26_Witness ==
    /\ perf_config.max_concurrent_connections = 50
    /\ concurrency_result.status \in {"passed", "failed"}
    /\ Len(concurrency_result.load_test_results) = 3
    /\ concurrency_result.load_test_results[3] = LoadTestResult(10, 45)

\* the positions of the results at or above the minimum success rate
StableAt(results, cfg) ==
    {k \in 1..Len(results) : results[k].success_rate >= cfg.min_success_rate}

\* the positions before the first result below the minimum success rate
StableBeforeDrop(results, cfg) ==
    {k \in 1..Len(results) : \A j \in 1..k : j \in StableAt(results, cfg)}

\* the highest level among the results at the positions, 0 without one
HighestLevel(results, positions) ==
    IF positions = {} THEN 0
    ELSE CHOOSE level \in {results[k].concurrent_users : k \in positions} :
            \A k \in positions : results[k].concurrent_users <= level

\* C27 as stated: the max stable connections reported by
\* test_concurrent_connections equals the highest attempted concurrency level
\* whose success_rate is at least the configured minimum success rate, and 0
\* when no attempted level reaches it, for every sequence of per-level success
\* rates.
C27_Original ==
    concurrency_result.status \in {"passed", "failed"} =>
        concurrency_result.max_stable_connections
            = HighestLevel(concurrency_result.load_test_results,
                           StableAt(concurrency_result.load_test_results, perf_config))

\* C27 as amended: the max stable connections reported equals the highest
\* attempted level before the first attempted level whose success_rate is
\* below the configured minimum (that level is the breakdown point), and 0
\* when the first level is already below it, for every sequence of per-level
\* success rates.
C27_MaxStableBeforeDrop ==
    concurrency_result.status \in {"passed", "failed"} =>
        LET results == concurrency_result.load_test_results
            stable == StableBeforeDrop(results, perf_config)
        IN /\ concurrency_result.max_stable_connections = HighestLevel(results, stable)
           /\ concurrency_result.performance_breakdown_point =
                 IF Cardinality(stable) < Len(results)
                 THEN results[Cardinality(stable) + 1].concurrent_users ELSE 0

\* level 10 fell below the minimum of 0.90 but not below 0.5, the escalation
\* went on, a later level reached the minimum again, and 5 is reported
C27_Witness ==
    /\ perf_config.min_success_rate = 90
    /\ concurrency_result.max_stable_connections = 5
    /\ concurrency_result.performance_breakdown_point = 10
    /\ \E k \in 4..Len(concurrency_result.load_test_results) :
          concurrency_result.load_test_results[k].success_rate >= 90


----------------------------------------------------------------------------
(* MCPPerformanceTester: _run_load_test.  Its workers run on one event loop: *)
(* a worker runs from one await to the next without interruption, so a step  *)
(* of the model is a worker's code between two awaits.  A worker is          *)
(* "ready" (created by gather, not yet run), "calling" (awaiting call_tool), *)
(* "pausing" (awaiting the sleep after a call), "done" or "raised"; `calls`  *)
(* are the outcomes of the invocations it has made, in order.                *)

\* the most invocations a worker makes before end_time is reached
MaxCalls == 2

\* the workers of a load test, one per concurrent user
LoadWorkers == 1..3

\* the most sessions the load tests of a run have open before a test starts
MaxOpenSessions == 4

\* toolkit.get_tools() of a worker: tools, none (the toolkit did not
\* initialize), or an exception
ToolsOutcomes == {"tools", "no_tools", "raises"}

\* how an invocation ends: it returns, or an Exception is raised
CallOutcomes == {"ok", "Exception"}

\* the response time measured for the k-th invocation of worker w
ResponseTimeOf(w, k) == 10 * w + k

Worker(pc, calls) == [pc |-> pc, calls |-> calls]

\* an invocation that raised leaves the metrics as they are
record_call_FailureUncounted(metrics, outcome, response_time) ==
    IF outcome = "ok"
    THEN [metrics EXCEPT !.response_times = Append(@, response_time),
                         !.success_count = @ + 1]
    ELSE metrics

\* the worker's code after call_tool: the response time is appended and the
\* success counted, or `except Exception` counts the failure
record_call(metrics, outcome, response_time) ==
    IF outcome = "ok"
    THEN [metrics EXCEPT !.response_times = Append(@, response_time),
                         !.success_count = @ + 1]
    ELSE [metrics EXCEPT !.failure_count = @ + 1]

\* a worker at the head of its loop: it makes the next invocation while
\* time.time() < end_time, else it returns
AtLoopHead(worker, in_time) ==
    IF in_time /\ Len(worker.calls) < MaxCalls
    THEN [worker EXCEPT !.pc = "calling"] ELSE [worker EXCEPT !.pc = "done"]

\* _run_load_test up to the gather of its workers
CallRunLoadTest ==
    /\ perf_config # NoPerformanceConfig
    /\ load.pc = "none"
    /\ load.sessions + Cardinality(LoadWorkers) <= MaxOpenSessions
    /\ load' = [pc |-> "gather",
                metrics |-> NoLoad.metrics,
                workers |-> [w \in LoadWorkers |-> Worker("ready", <<>>)],
                sessions |-> load.sessions]
    /\ UNCHANGED <<perf_config, concurrency, concurrency_result, resVars, testerVars,
                   remVars, detVars, calc>>

\* a worker runs for the first time, up to its first await or its end; a
\* toolkit that has tools was initialized, which opened its session
WorkerStarts(w) ==
    /\ load.pc = "gather"
    /\ load.workers[w].pc = "ready"
    /\ \E tools \in ToolsOutcomes : \E in_time \in BOOLEAN :
          load' = [load EXCEPT !.workers[w] =
                      IF tools = "raises" THEN [@ EXCEPT !.pc = "raised"]
                      ELSE IF tools = "no_tools" THEN [@ EXCEPT !.pc = "done"]
                      ELSE AtLoopHead(@, in_time),
                               !.sessions = IF tools = "tools" THEN @ + 1 ELSE @]
    /\ UNCHANGED <<perf_config, concurrency, concurrency_result, resVars, testerVars,
                   remVars, detVars, calc>>

\* the invocation a worker awaits ends, and the worker runs up to its sleep
CallToolEnds(w) ==
    /\ load.pc = "gather"
    /\ load.workers[w].pc = "calling"
    /\ \E outcome \in CallOutcomes :
          load' = [load EXCEPT
                      !.metrics = record_call(@, outcome,
                                              ResponseTimeOf(w, Len(load.workers[w].calls) + 1)),
                      !.workers[w] =
                          [pc |-> "pausing", calls |-> Append(@.calls, outcome)]]
    /\ UNCHANGED <<perf_config, concurrency, concurrency_result, resVars, testerVars,
                   remVars, detVars, calc>>

\* the sleep of a worker ends, and the worker is at the head of its loop
PauseEnds(w) ==
    /\ load.pc = "gather"
    /\ load.workers[w].pc = "pausing"
    /\ \E in_time \in BOOLEAN :
          load' = [load EXCEPT !.workers[w] = AtLoopHead(@, in_time)]
    /\ UNCHANGED <<perf_config, concurrency, concurrency_result, resVars, testerVars,
                   remVars, detVars, calc>>

\* every worker has ended: gather(return_exceptions=True) returns
GatherReturns ==
    /\ load.pc = "gather"
    /\ \A w \in LoadWorkers : load.workers[w].pc \in {"done", "raised"}
    /\ load' = [load EXCEPT !.pc = "returned"]
    /\ UNCHANGED <<perf_config, concurrency, concurrency_result, resVars, testerVars,
                   remVars, detVars, calc>>

\* the LoadTestResult is handed back, the toolkits of the test as they are;
\* another load test may be run
RunLoadTestReturns ==
    /\ load.pc = "returned"
    /\ load' = [NoLoad EXCEPT !.sessions = load.sessions]
    /\ UNCHANGED <<perf_config, concurrency, concurrency_result, resVars, testerVars,
                   remVars, detVars, calc>>

\* PerformanceTestConfig(): the defaults
DefaultPerformanceConfig == PerformanceTestConfig(50, 95)

LoadNext ==
    \/ CallConstructPerformanceTester(DefaultPerformanceConfig)
    \/ CallRunLoadTest
    \/ \E w \in LoadWorkers : WorkerStarts(w)
    \/ \E w \in LoadWorkers : CallToolEnds(w)
    \/ \E w \in LoadWorkers : PauseEnds(w)
    \/ GatherReturns
    \/ RunLoadTestReturns

SpecLoad == PerformanceInit /\ [][LoadNext]_vars


----------------------------------------------------------------------------
(* C28 *)

\* the invocations of the workers that ended with the given outcome, each
\* named by its worker and its position in the worker's calls
InvocationsEnded(workers, outcome) ==
    {<<w, k>> \in LoadWorkers \X (1..(MaxCalls + 1)) :
        k <= Len(workers[w].calls) /\ workers[w].calls[k] = outcome}

\* every invocation the workers have made
InvocationsMade(workers) ==
    {<<w, k>> \in LoadWorkers \X (1..(MaxCalls + 1)) : k <= Len(workers[w].calls)}

\* the response times in the metrics, as a set
TimesRecorded(metrics) ==
    {metrics.response_times[i] : i \in 1..Len(metrics.response_times)}

\* C28: when the joint await of the workers of a load test returns, every
\* worker has ended (one that raised did not stop the others), the successes
\* and failures counted add up to the invocations all workers made, there is
\* one response time per success, and the counts and the response times are
\* those of the invocations' outcomes whatever order the workers ran in: no
\* update is lost and none is counted twice.
C28_NoLostUpdate ==
    load.pc = "returned" =>
        /\ \A w \in LoadWorkers : load.workers[w].pc \in {"done", "raised"}
        /\ load.metrics.success_count + load.metrics.failure_count
              = Cardinality(InvocationsMade(load.workers))
        /\ Len(load.metrics.response_times) = load.metrics.success_count
        /\ load.metrics.success_count
              = Cardinality(InvocationsEnded(load.workers, "ok"))
        /\ load.metrics.failure_count
              = Cardinality(InvocationsEnded(load.workers, "Exception"))
        /\ TimesRecorded(load.metrics)
              = {ResponseTimeOf(i[1], i[2]) : i \in InvocationsEnded(load.workers, "ok")}
        /\ Cardinality(TimesRecorded(load.metrics)) = Len(load.metrics.response_times)

\* a load test returned in which one worker raised and the two others made
\* their invocations, one of them failing, the last worker's first response
\* time being recorded before the second worker's
C28_Witness ==
    /\ load.pc = "returned"
    /\ load.workers[1].pc = "raised"
    /\ load.workers[2].calls = <<"ok", "Exception">>
    /\ load.workers[3].calls = <<"ok", "ok">>
    /\ load.metrics.response_times
          = <<ResponseTimeOf(3, 1), ResponseTimeOf(2, 1), ResponseTimeOf(3, 2)>>
    /\ load.metrics.failure_count = 1


----------------------------------------------------------------------------
(* ResourceMonitor and MCPPerformanceTester.test_resource_usage.  The       *)
(* sampler task and the coroutine that started it run on one event loop; a  *)
(* step of the model is the code of one of them between two awaits.         *)
(* Memory is in whole megabytes, CPU in whole percent; averages and the     *)
(* memory trend are exact fractions.                                        *)

\* the most iterations the sampler makes while monitoring is on
MaxSamples == 10

\* the memory of the sampled process: its first sample and the change from
\* one sample to the next.  Flat, rising by less, by exactly and by more than
\* a tenth of the mean over ten samples, falling, and flat above the default
\* maximum.
MemoryProfiles ==
    {[base |-> 100, step |-> 0], [base |-> 100, step |-> 1], [base |-> 191, step |-> 2],
     [base |-> 100, step |-> 2], [base |-> 300, step |-> -5], [base |-> 600, step |-> 0]}

\* the CPU of the sampled process, in its odd and its even samples
CpuProfiles ==
    {[odd |-> 30, even |-> 30], [odd |-> 90, even |-> 30], [odd |-> 90, even |-> 90]}

Profiles == {[memory |-> m, cpu |-> c] : m \in MemoryProfiles, c \in CpuProfiles}

\* how an iteration of the sampler ends: both values are read, or reading
\* the memory raises, or reading the CPU raises after the memory is appended
SampleOutcomes == {"sampled", "memory_raises", "cpu_raises"}

\* max_memory_usage_mb and max_cpu_usage_percent of the tester's config: the
\* defaults and a stricter pair
ResourceLimits ==
    {[max_memory_usage_mb |-> 512, max_cpu_usage_percent |-> 80],
     [max_memory_usage_mb |-> 100, max_cpu_usage_percent |-> 60]}

\* process.memory_info().rss in megabytes at the k-th sample
memory_at(profile, k) == profile.memory.base + profile.memory.step * (k - 1)

\* process.cpu_percent() at the k-th sample
cpu_at(profile, k) == IF k % 2 = 1 THEN profile.cpu.odd ELSE profile.cpu.even

RECURSIVE SeqMax(_)
SeqMax(s) ==
    IF Len(s) = 1 THEN Head(s)
    ELSE IF Head(s) >= SeqMax(Tail(s)) THEN Head(s) ELSE SeqMax(Tail(s))

\* ResourceMonitor.start
start(m, profile) ==
    [m EXCEPT !.monitoring = TRUE, !.memory_samples = <<>>, !.cpu_samples = <<>>,
              !.monitor_task = "ready", !.started = TRUE, !.profile = profile,
              !.ticks = 0, !.taken_memory = <<>>, !.taken_cpu = <<>>]

\* ResourceMonitor._monitor_loop from the head of the loop to its sleep, or
\* to its end when monitoring is off
monitor_loop(m, outcome) ==
    IF ~m.monitoring THEN [m EXCEPT !.monitor_task = "done"]
    ELSE LET memory_mb == memory_at(m.profile, Len(m.taken_memory) + 1)
             cpu_percent == cpu_at(m.profile, Len(m.taken_cpu) + 1)
         IN CASE outcome = "sampled" ->
                    [m EXCEPT !.memory_samples = Append(@, memory_mb),
                              !.taken_memory = Append(@, memory_mb),
                              !.cpu_samples = Append(@, cpu_percent),
                              !.taken_cpu = Append(@, cpu_percent),
                              !.monitor_task = "sleeping", !.ticks = @ + 1]
              [] outcome = "cpu_raises" ->
                    [m EXCEPT !.memory_samples = Append(@, memory_mb),
                              !.taken_memory = Append(@, memory_mb),
                              !.monitor_task = "sleeping", !.ticks = @ + 1]
              [] OTHER ->
                    [m EXCEPT !.monitor_task = "sleeping", !.ticks = @ + 1]

\* ResourceMonitor.stop after its await: zeros without memory samples, else
\* the aggregate, and max() of an empty cpu_samples raises ValueError
stop_aggregate(m) ==
    IF m.memory_samples = <<>>
    THEN [m EXCEPT !.stop = "returned", !.data = NoData]
    ELSE IF m.cpu_samples = <<>>
    THEN [m EXCEPT !.stop = "raised"]
    ELSE [m EXCEPT !.stop = "returned",
                   !.data = [peak_memory_mb |-> SeqMax(m.memory_samples),
                             avg_memory_mb |-> Fraction(SeqSum(m.memory_samples),
                                                        Len(m.memory_samples)),
                             peak_cpu_percent |-> SeqMax(m.cpu_samples),
                             avg_cpu_percent |-> Fraction(SeqSum(m.cpu_samples),
                                                          Len(m.cpu_samples)),
                             memory_samples |-> m.memory_samples,
                             cpu_samples |-> m.cpu_samples]]

\* ResourceMonitor.stop up to its await: the flag is cleared, and the task is
\* awaited when there is one
stop(m) ==
    LET cleared == [m EXCEPT !.monitoring = FALSE]
    IN IF m.monitor_task # "none" THEN [cleared EXCEPT !.stop = "awaiting"]
       ELSE stop_aggregate(cleared)

\* the sum over the samples of (x - x_mean) * (y - y_mean), times n * n
RECURSIVE TrendNumerator(_, _, _, _)
TrendNumerator(memory_samples, n, sum_y, i) ==
    IF i > n THEN 0
    ELSE (n * (i - 1) - (n * (n - 1)) \div 2) * (n * memory_samples[i] - sum_y)
             + TrendNumerator(memory_samples, n, sum_y, i + 1)

\* the sum over the samples of (x - x_mean) ** 2, times n * n
RECURSIVE TrendDenominator(_, _)
TrendDenominator(n, i) ==
    IF i > n THEN 0
    ELSE (n * (i - 1) - (n * (n - 1)) \div 2) * (n * (i - 1) - (n * (n - 1)) \div 2)
             + TrendDenominator(n, i + 1)

\* the trend is computed from two samples on
analyze_memory_trend_NoMinimum(memory_samples) ==
    LET n == Len(memory_samples)
        sum_y == SeqSum(memory_samples)
        numerator == TrendNumerator(memory_samples, n, sum_y, 1)
        denominator == TrendDenominator(n, 1)
    IN IF n < 2 THEN Fraction(0, 1)
       ELSE IF denominator = 0 THEN Fraction(0, 1)
       ELSE IF sum_y > 0 THEN Fraction(numerator * n * n, denominator * sum_y)
       ELSE Fraction(0, 1)

\* _analyze_memory_trend: 0.0 below ten samples, else the least-squares slope
\* times n over the mean
analyze_memory_trend(memory_samples) ==
    LET n == Len(memory_samples)
        sum_y == SeqSum(memory_samples)
        numerator == TrendNumerator(memory_samples, n, sum_y, 1)
        denominator == TrendDenominator(n, 1)
    IN IF n < 10 THEN Fraction(0, 1)
       ELSE IF denominator = 0 THEN Fraction(0, 1)
       ELSE IF sum_y > 0 THEN Fraction(numerator * n * n, denominator * sum_y)
       ELSE Fraction(0, 1)

\* a fraction with a positive denominator is above num / den
Above(fraction, num, den) == fraction.num * den > num * fraction.den

\* the CPU check compares the peak
resource_issues_PeakCpu(data, cfg, memory_trend) ==
    (IF data.peak_memory_mb > cfg.max_memory_usage_mb THEN <<"peak_memory">> ELSE <<>>)
    \o (IF data.peak_cpu_percent > cfg.max_cpu_usage_percent THEN <<"avg_cpu">> ELSE <<>>)
    \o (IF Above(memory_trend, 1, 10) THEN <<"memory_trend">> ELSE <<>>)

\* the issues test_resource_usage lists: peak memory and average CPU above
\* their maxima, memory trend above 0.1
resource_issues(data, cfg, memory_trend) ==
    (IF data.peak_memory_mb > cfg.max_memory_usage_mb THEN <<"peak_memory">> ELSE <<>>)
    \o (IF Above(data.avg_cpu_percent, cfg.max_cpu_usage_percent, 1)
        THEN <<"avg_cpu">> ELSE <<>>)
    \o (IF Above(memory_trend, 1, 10) THEN <<"memory_trend">> ELSE <<>>)

\* test_resource_usage after stop() returned the data of a load phase
resource_analyzed(r, data) ==
    LET memory_trend == analyze_memory_trend(data.memory_samples)
        issues == resource_issues(data, r.config, memory_trend)
    IN [r EXCEPT !.pc = "returned",
                 !.status = IF issues = <<>> THEN "passed" ELSE "failed",
                 !.confidence_score = 85, !.issues = issues,
                 !.memory_trend = memory_trend, !.data = data]

\* test_resource_usage when stop() has ended: an exception gives the error
\* result, without tools the test was skipped, else the data is analyzed
resource_stopped(r, m) ==
    IF m.stop = "raised"
    THEN [r EXCEPT !.pc = "returned", !.status = "error", !.confidence_score = 75]
    ELSE IF r.pc = "skipping"
    THEN [r EXCEPT !.pc = "returned", !.status = "skipped", !.confidence_score = 95]
    ELSE resource_analyzed(r, m.data)

\* test_resource_usage up to the await of toolkit.initialize(): the monitor is
\* made and started
CallTestResourceUsage ==
    /\ resource.pc = "none"
    /\ monitor = NoMonitor
    /\ \E cfg \in ResourceLimits : \E profile \in Profiles :
          /\ resource' = [NoResource EXCEPT !.pc = "initializing", !.config = cfg]
          /\ monitor' = start(NoMonitor, profile)
    /\ UNCHANGED <<perf_config, concurrency, concurrency_result, load, testerVars,
                   remVars, detVars, calc>>

\* the sampler task runs one iteration of its loop
MonitorLoopRuns ==
    /\ monitor.monitor_task \in {"ready", "sleeping"}
    /\ ~monitor.monitoring \/ monitor.ticks < MaxSamples
    /\ \E outcome \in IF monitor.monitoring THEN SampleOutcomes ELSE {"sampled"} :
          monitor' = monitor_loop(monitor, outcome)
    /\ UNCHANGED <<resource, perf_config, concurrency, concurrency_result, load,
                   testerVars, remVars, detVars, calc>>

\* toolkit.initialize() ends: it raises (the error result, the monitor left
\* as it is), or there are no tools (stop, then skipped), or the load starts
ResourceInitializeEnds ==
    /\ resource.pc = "initializing"
    /\ \E tools \in ToolsOutcomes :
          CASE tools = "raises" ->
                  /\ resource' = [resource EXCEPT !.pc = "returned", !.tools = tools,
                                                  !.status = "error",
                                                  !.confidence_score = 75]
                  /\ UNCHANGED monitor
            [] tools = "no_tools" ->
                  /\ resource' = [resource EXCEPT !.pc = "skipping", !.tools = tools]
                  /\ monitor' = stop(monitor)
            [] OTHER ->
                  /\ resource' = [resource EXCEPT !.pc = "loading", !.tools = tools]
                  /\ UNCHANGED monitor
    /\ UNCHANGED <<perf_config, concurrency, concurrency_result, load, testerVars,
                   remVars, detVars, calc>>

\* the load loop ends, its exceptions swallowed: stop() is called
ResourceLoadEnds ==
    /\ resource.pc = "loading"
    /\ resource' = [resource EXCEPT !.pc = "stopping"]
    /\ monitor' = stop(monitor)
    /\ UNCHANGED <<perf_config, concurrency, concurrency_result, load, testerVars,
                   remVars, detVars, calc>>

\* a monitor used on its own: start()
CallStart ==
    /\ resource.pc = "none"
    /\ monitor = NoMonitor
    /\ \E profile \in Profiles : monitor' = start(monitor, profile)
    /\ UNCHANGED <<resource, perf_config, concurrency, concurrency_result, load,
                   testerVars, remVars, detVars, calc>>

\* a monitor used on its own: stop(), after start() or without it
CallStop ==
    /\ resource.pc = "none"
    /\ monitor.stop = "none"
    /\ monitor' = stop(monitor)
    /\ UNCHANGED <<resource, perf_config, concurrency, concurrency_result, load,
                   testerVars, remVars, detVars, calc>>

\* the sampler task has ended: stop() goes on after its await and ends, and
\* with it the test that called it
StopResumes ==
    /\ monitor.stop = "awaiting"
    /\ monitor.monitor_task = "done"
    /\ monitor' = stop_aggregate(monitor)
    /\ resource' = IF resource.pc \in {"stopping", "skipping"}
                   THEN resource_stopped(resource, monitor')
                   ELSE resource
    /\ UNCHANGED <<perf_config, concurrency, concurrency_result, load, testerVars,
                   remVars, detVars, calc>>

ResourceNext ==
    \/ CallTestResourceUsage
    \/ MonitorLoopRuns
    \/ ResourceInitializeEnds
    \/ ResourceLoadEnds
    \/ CallStart
    \/ CallStop
    \/ StopResumes

SpecResource == PerformanceInit /\ [][ResourceNext]_vars


----------------------------------------------------------------------------
(* C29 *)

\* what stop() hands back once it has returned: the flag is cleared, the
\* sampler task has ended, the lists are the samples taken since start, each
\* once and in order, nothing is appended afterwards, and without a start
\* they are the zeros and the empty lists
StopReturnedSamples ==
    monitor.stop = "returned" =>
        /\ ~monitor.monitoring
        /\ monitor.monitor_task \in {"none", "done"}
        /\ monitor.data.memory_samples = monitor.taken_memory
        /\ monitor.data.cpu_samples = monitor.taken_cpu
        /\ monitor.memory_samples = monitor.data.memory_samples
        /\ monitor.cpu_samples = monitor.data.cpu_samples
        /\ ~monitor.started => monitor.data = NoData

\* C29: ResourceMonitor.stop clears the flag, waits for the sampler task and
\* then computes the aggregate: a stop that was called never ends other than
\* by returning, and what it returns are exactly the samples taken between
\* start and stop, with no sample appended after it returned (zeros and empty
\* lists without a start).
C29_StopReturnsSamples ==
    /\ monitor.stop # "raised"
    /\ StopReturnedSamples


----------------------------------------------------------------------------
(* C30 *)

\* the largest of the samples, 0 when there is none
PeakOf(samples) ==
    IF samples = <<>> THEN 0
    ELSE CHOOSE v \in {samples[i] : i \in 1..Len(samples)} :
             \A i \in 1..Len(samples) : v >= samples[i]

\* the average of the samples is above the maximum
AverageAbove(samples, maximum) ==
    samples # <<>> /\ SeqSum(samples) > maximum * Len(samples)

MemoryBreach == PeakOf(monitor.taken_memory) > resource.config.max_memory_usage_mb
PeakCpuBreach == PeakOf(monitor.taken_cpu) > resource.config.max_cpu_usage_percent
AverageCpuBreach == AverageAbove(monitor.taken_cpu, resource.config.max_cpu_usage_percent)
TrendBreach == Above(analyze_memory_trend(monitor.taken_memory), 1, 10)

\* the resource test returned failed with an issue flagged
FlaggedFailed == resource.status = "failed" /\ resource.issues # <<>>

\* C30 as stated: the resource test returns failed, an issue flagged, whenever
\* the sampled peak memory or the sampled peak CPU is above its configured
\* maximum or the memory trend is above 0.10, and passed only when none of
\* the three holds.
C30_Original ==
    resource.pc = "returned" =>
        /\ (MemoryBreach \/ PeakCpuBreach \/ TrendBreach) => FlaggedFailed
        /\ resource.status = "passed" => ~(MemoryBreach \/ PeakCpuBreach \/ TrendBreach)

\* C30, amended: a resource test that found tools and whose monitor returned
\* its data returns failed, an issue flagged, whenever the sampled peak memory
\* or the sampled average CPU is above its configured maximum or the memory
\* trend is above 0.10, and passed otherwise; without tools it returns
\* skipped, and it returns error when the initialization or the monitor's
\* stop raised.
C30_ResourceVerdict ==
    resource.pc = "returned" =>
        IF resource.tools = "raises" \/ monitor.stop = "raised"
        THEN resource.status = "error" /\ resource.confidence_score = 75
        ELSE IF resource.tools = "no_tools"
        THEN resource.status = "skipped" /\ resource.confidence_score = 95
        ELSE /\ monitor.stop = "returned"
             /\ resource.confidence_score = 85
             /\ (MemoryBreach \/ AverageCpuBreach \/ TrendBreach) => FlaggedFailed
             /\ ~(MemoryBreach \/ AverageCpuBreach \/ TrendBreach)
                    => resource.status = "passed" /\ resource.issues = <<>>

\* a resource test over ten samples returned failed with all three issues
C30_Witness ==
    /\ resource.pc = "returned"
    /\ Len(monitor.taken_memory) = 10
    /\ resource.status = "failed"
    /\ resource.issues = <<"peak_memory", "avg_cpu", "memory_trend">>


----------------------------------------------------------------------------
(* C31 *)

\* how many of the results have the status, counted result by result
RECURSIVE WithStatus(_, _)
WithStatus(rs, status) ==
    IF rs = <<>> THEN 0
    ELSE (IF Head(rs).status = status THEN 1 ELSE 0) + WithStatus(Tail(rs), status)

\* the sum of the results' confidence scores
RECURSIVE ConfidenceSum(_)
ConfidenceSum(rs) ==
    IF rs = <<>> THEN 0 ELSE Head(rs).confidence_score + ConfidenceSum(Tail(rs))

\* C31: in every TestSuite that run_comprehensive_test_suite returns,
\* total_tests is the number of results, the passed, failed, error and
\* skipped counts are the numbers of results with that status and add up to
\* total_tests, and overall_confidence is the arithmetic mean of the results'
\* confidence scores.
C31_SuiteSummary ==
    \A suite \in ReturnedSuites :
        /\ suite.total_tests = Len(suite.results)
        /\ suite.passed_tests = WithStatus(suite.results, "passed")
        /\ suite.failed_tests = WithStatus(suite.results, "failed")
        /\ suite.error_tests = WithStatus(suite.results, "error")
        /\ suite.skipped_tests = WithStatus(suite.results, "skipped")
        /\ suite.passed_tests + suite.failed_tests + suite.error_tests
              + suite.skipped_tests = suite.total_tests
        /\ suite.overall_confidence.den > 0
        /\ suite.overall_confidence.num * Len(suite.results)
              = ConfidenceSum(suite.results) * suite.overall_confidence.den

\* a suite was returned whose results are passed ones and an error, with
\* different confidence scores
C31_Witness ==
    \E suite \in ReturnedSuites :
        /\ suite.total_tests = 4
        /\ suite.passed_tests = 3
        /\ suite.error_tests = 1
        /\ \E i, j \in 1..4 :
              suite.results[i].confidence_score # suite.results[j].confidence_score


----------------------------------------------------------------------------
(* PerformanceMetrics.calculate_derived_metrics, _calculate_performance_grade *)
(* and _analyze_memory_trend as operations on values.  Response times are    *)
(* whole milliseconds, durations whole seconds; means, rates and throughput  *)
(* are exact fractions.                                                      *)

\* response times n * 10, ..., 20, 10: n samples in descending order
Descending(n) == [i \in 1..n |-> (n - i + 1) * 10]

\* the response-time lists metrics are made with: none, one, the list of the
\* unit test, and lists long enough for the 95th (above 20 samples) and the
\* 99th percentile (above 100) to differ from the maximum
ResponseTimeLists ==
    {<<>>, <<100>>, <<100, 200, 150, 300, 250>>, <<300, 100, 100>>}
        \cup {Descending(n) : n \in {20, 21, 101}}

\* test_duration: negative, zero and positive ones
TestDurations == {-1, 0, 2, 5}

\* the place sorted() gives the i-th element: after the smaller ones and after
\* the equal ones that come before it (the sort is stable)
SortedPlace(s, i) ==
    Cardinality({j \in 1..Len(s) : s[j] < s[i] \/ (s[j] = s[i] /\ j < i)}) + 1

\* the elements of s put at their places
Placed(s, place) == [k \in 1..Len(s) |-> s[CHOOSE i \in 1..Len(s) : place[i] = k]]

\* sorted(): every element at its place (the places are laid out as a
\* sequence once, before the elements are put)
sorted(s) == Placed(s, <<>> \o [i \in 1..Len(s) |-> SortedPlace(s, i)])

\* the sum, the minimum and the maximum of s[lo..hi], by halves
RECURSIVE SumOf(_, _, _)
SumOf(s, lo, hi) ==
    IF lo > hi THEN 0
    ELSE IF lo = hi THEN s[lo]
    ELSE SumOf(s, lo, (lo + hi) \div 2) + SumOf(s, (lo + hi) \div 2 + 1, hi)

RECURSIVE MinOf(_, _, _)
MinOf(s, lo, hi) ==
    IF lo = hi THEN s[lo]
    ELSE Min(MinOf(s, lo, (lo + hi) \div 2), MinOf(s, (lo + hi) \div 2 + 1, hi))

RECURSIVE MaxOf(_, _, _)
MaxOf(s, lo, hi) ==
    IF lo = hi THEN s[lo]
    ELSE LET a == MaxOf(s, lo, (lo + hi) \div 2)
             b == MaxOf(s, (lo + hi) \div 2 + 1, hi)
         IN IF a >= b THEN a ELSE b

\* sorted_times[int(q * n)] for q = percent / 100, the list indexed from 0;
\* int(0.95 * n) and int(0.99 * n) in binary64 are the integer parts of
\* 95 * n / 100 and 99 * n / 100
percentile(sorted_times, percent) ==
    sorted_times[(percent * Len(sorted_times)) \div 100 + 1]

\* the percentiles are the last of the sorted samples
calculate_derived_metrics_Max(m, test_duration) ==
    LET total_requests == m.success_count + m.failure_count + m.error_count
        latencies ==
            IF m.response_times # <<>>
            THEN [m EXCEPT !.avg_response_time = Fraction(SumOf(m.response_times, 1,
                                                                Len(m.response_times)),
                                                          Len(m.response_times)),
                           !.min_response_time = MinOf(m.response_times, 1,
                                                       Len(m.response_times)),
                           !.max_response_time = MaxOf(m.response_times, 1,
                                                       Len(m.response_times)),
                           !.p95_response_time = MaxOf(m.response_times, 1,
                                                       Len(m.response_times)),
                           !.p99_response_time = MaxOf(m.response_times, 1,
                                                       Len(m.response_times))]
            ELSE m
    IN [latencies EXCEPT
           !.success_rate = success_rate(m.success_count, m.failure_count, m.error_count),
           !.throughput_rps = IF test_duration > 0 THEN Fraction(total_requests, test_duration)
                              ELSE Fraction(0, 1)]

\* PerformanceMetrics.calculate_derived_metrics (the memory and CPU lists of
\* the metrics are never filled and are left out)
calculate_derived_metrics(m, test_duration) ==
    LET total_requests == m.success_count + m.failure_count + m.error_count
        sorted_times == sorted(m.response_times)
        latencies ==
            IF m.response_times # <<>>
            THEN [m EXCEPT !.avg_response_time = Fraction(SumOf(m.response_times, 1,
                                                                Len(m.response_times)),
                                                          Len(m.response_times)),
                           !.min_response_time = MinOf(m.response_times, 1,
                                                       Len(m.response_times)),
                           !.max_response_time = MaxOf(m.response_times, 1,
                                                       Len(m.response_times)),
                           !.p95_response_time = percentile(sorted_times, 95),
                           !.p99_response_time = percentile(sorted_times, 99)]
            ELSE m
    IN [latencies EXCEPT
           !.success_rate = success_rate(m.success_count, m.failure_count, m.error_count),
           !.throughput_rps = IF test_duration > 0 THEN Fraction(total_requests, test_duration)
                              ELSE Fraction(0, 1)]

\* a PerformanceMetrics is made and filled: the response times of the
\* successes, as a load test fills it, or counts set apart from the list, as
\* the unit test does.  Every computation starts from a new object, so the
\* ones that follow another are those that follow the initial state.
NewMetrics ==
    \E response_times \in ResponseTimeLists :
    \E successes \in {Len(response_times), 0, 4} : \E failures \in {0, 1} :
    \E errors \in {0, 2} :
       /\ calc.op = "none"
       /\ calc' = [NoCalc EXCEPT !.op = "metrics",
                                 !.metrics = [NoMetrics EXCEPT
                                                 !.response_times = response_times,
                                                 !.success_count = successes,
                                                 !.failure_count = failures,
                                                 !.error_count = errors]]
       /\ UNCHANGED <<perf_config, concurrency, concurrency_result, load, resVars,
                      testerVars, remVars, detVars>>

\* calculate_derived_metrics(test_duration) on the metrics in hand
CalculateDerivedMetrics ==
    /\ calc.op = "metrics"
    /\ \E test_duration \in TestDurations :
          calc' = [calc EXCEPT !.op = "derived",
                               !.metrics = calculate_derived_metrics(@, test_duration),
                               !.test_duration = test_duration]
    /\ UNCHANGED <<perf_config, concurrency, concurrency_result, load, resVars,
                   testerVars, remVars, detVars>>


----------------------------------------------------------------------------
(* _calculate_performance_grade *)

\* max_response_time_ms and min_success_rate (in hundredths) of the tester's
\* config: the unit tests' 1000 ms and 0.90, the defaults 2000 ms and 0.95,
\* and a minimum above 0.98
GradeConfigs ==
    {[max_response_time_ms |-> t, min_success_rate |-> r] : t \in {1000, 2000},
                                                            r \in {90, 95, 99}}

\* the values a test sets the graded fields of a PerformanceMetrics to: at,
\* just above and far from the thresholds
AvgResponseTimes == {100, 800, 801, 1000, 1001, 1600, 1601, 2001, 5000}
SuccessRateValues == {50, 89, 90, 94, 95, 97, 98, 99, 100}
P95ResponseTimes == {150, 1500, 1501, 3000, 3001, 8000}

\* the success rate is tested against 0.98 before the configured minimum
calculate_performance_grade_Lenient(m, cfg) ==
    LET response_time_score ==
            IF Above(m.avg_response_time, cfg.max_response_time_ms, 1) THEN 20
            ELSE IF Above(m.avg_response_time, 8 * cfg.max_response_time_ms, 10) THEN 10
            ELSE 0
        success_rate_score ==
            IF m.success_rate.num * 100 < 98 * m.success_rate.den THEN 15
            ELSE IF m.success_rate.num * 100 < cfg.min_success_rate * m.success_rate.den
            THEN 30
            ELSE 0
        p95_score == IF 2 * m.p95_response_time > 3 * cfg.max_response_time_ms THEN 15 ELSE 0
        score == 100 - response_time_score - success_rate_score - p95_score
    IN IF score >= 90 THEN "A"
       ELSE IF score >= 80 THEN "B"
       ELSE IF score >= 70 THEN "C"
       ELSE IF score >= 60 THEN "D"
       ELSE "F"

\* _calculate_performance_grade: the deductions for the average response
\* time, the success rate and the 95th percentile, and the grade of the score
calculate_performance_grade(m, cfg) ==
    LET response_time_score ==
            IF Above(m.avg_response_time, cfg.max_response_time_ms, 1) THEN 20
            ELSE IF Above(m.avg_response_time, 8 * cfg.max_response_time_ms, 10) THEN 10
            ELSE 0
        success_rate_score ==
            IF m.success_rate.num * 100 < cfg.min_success_rate * m.success_rate.den
            THEN 30
            ELSE IF m.success_rate.num * 100 < 98 * m.success_rate.den THEN 15
            ELSE 0
        p95_score == IF 2 * m.p95_response_time > 3 * cfg.max_response_time_ms THEN 15 ELSE 0
        score == 100 - response_time_score - success_rate_score - p95_score
    IN IF score >= 90 THEN "A"
       ELSE IF score >= 80 THEN "B"
       ELSE IF score >= 70 THEN "C"
       ELSE IF score >= 60 THEN "D"
       ELSE "F"

\* a PerformanceMetrics whose graded fields are set directly
GradedFields(avg, rate, p95) ==
    [NoMetrics EXCEPT !.avg_response_time = Fraction(avg, 1),
                      !.success_rate = Fraction(rate, 100),
                      !.p95_response_time = p95]

\* a test makes a PerformanceMetrics and sets its graded fields
SetMetrics ==
    \E avg \in AvgResponseTimes : \E rate \in SuccessRateValues :
    \E p95 \in P95ResponseTimes :
       /\ calc.op = "none"
       /\ calc' = [NoCalc EXCEPT !.op = "set", !.metrics = GradedFields(avg, rate, p95)]
       /\ UNCHANGED <<perf_config, concurrency, concurrency_result, load, resVars,
                      testerVars, remVars, detVars>>

\* _calculate_performance_grade on the metrics in hand, derived or set
CalculatePerformanceGrade ==
    /\ calc.op \in {"derived", "set"}
    /\ \E cfg \in GradeConfigs :
          calc' = [calc EXCEPT !.op = "graded", !.config = cfg,
                               !.grade = calculate_performance_grade(calc.metrics, cfg)]
    /\ UNCHANGED <<perf_config, concurrency, concurrency_result, load, resVars,
                   testerVars, remVars, detVars>>


----------------------------------------------------------------------------
(* _analyze_memory_trend on sample lists *)

\* n samples from base on, each `step` above the one before
Rising(n, base, step) == [i \in 1..n |-> base + step * (i - 1)]

\* the most samples of a generated list
MaxTrendSamples == 11

\* the sample lists the trend is computed for: the three of the unit test
\* (rising by 10 from 100, oscillating within 3 of 100, two samples), lists of
\* every length up to the bound that are flat, rise or fall, and ten zeros
TrendSamples ==
    {Rising(10, 100, 10),
     <<100, 102, 98, 101, 99, 100, 103, 97, 101, 100>>,
     <<100, 110>>}
    \cup {Rising(n, 100, step) : n \in 0..MaxTrendSamples, step \in {0, 1, 2, 10, 50, -5}}
    \cup {Rising(n, 191, 2) : n \in 9..10}
    \cup {Rising(10, 0, 0)}

\* _analyze_memory_trend on a list of samples
AnalyzeMemoryTrend ==
    /\ calc.op = "none"
    /\ \E memory_samples \in TrendSamples :
          calc' = [NoCalc EXCEPT !.op = "trend", !.memory_samples = memory_samples,
                                 !.memory_trend = analyze_memory_trend(memory_samples)]
    /\ UNCHANGED <<perf_config, concurrency, concurrency_result, load, resVars,
                   testerVars, remVars, detVars>>

MetricsNext ==
    \/ NewMetrics
    \/ CalculateDerivedMetrics
    \/ SetMetrics
    \/ CalculatePerformanceGrade
    \/ AnalyzeMemoryTrend

SpecMetrics == PerformanceInit /\ [][MetricsNext]_vars


----------------------------------------------------------------------------
(* C32 *)

\* v is the sample at index k, counted from 0, of the samples in ascending
\* order: at most k samples are below it and more than k are not above it
AtSortedIndex(samples, k, v) ==
    /\ \E i \in 1..Len(samples) : samples[i] = v
    /\ Cardinality({i \in 1..Len(samples) : samples[i] < v}) <= k
    /\ Cardinality({i \in 1..Len(samples) : samples[i] <= v}) > k

\* a fraction with a positive denominator has the value num / den
IsRatio(fraction, num, den) ==
    fraction.den > 0 /\ fraction.num * den = num * fraction.den

\* C32: calculate_derived_metrics(duration) on n >= 1 response times sets avg,
\* min and max to their mean, minimum and maximum, p95 and p99 to the sorted
\* sample at index floor(0.95 * n) and floor(0.99 * n), both within range;
\* success_rate is success / (success + failure + error) and 0 without
\* requests, throughput_rps is the requests over the duration and 0 for a
\* duration <= 0; without samples the latency fields stay 0.
C32_DerivedMetrics ==
    calc.op = "derived" =>
        LET m == calc.metrics
            samples == m.response_times
            n == Len(samples)
            total == m.success_count + m.failure_count + m.error_count
        IN /\ n >= 1 =>
                /\ IsRatio(m.avg_response_time, SumOf(samples, 1, n), n)
                /\ AtSortedIndex(samples, 0, m.min_response_time)
                /\ AtSortedIndex(samples, n - 1, m.max_response_time)
                /\ (95 * n) \div 100 \in 0..(n - 1)
                /\ (99 * n) \div 100 \in 0..(n - 1)
                /\ AtSortedIndex(samples, (95 * n) \div 100, m.p95_response_time)
                /\ AtSortedIndex(samples, (99 * n) \div 100, m.p99_response_time)
           /\ n = 0 =>
                /\ m.avg_response_time.num = 0
                /\ m.min_response_time = 0
                /\ m.max_response_time = 0
                /\ m.p95_response_time = 0
                /\ m.p99_response_time = 0
           /\ IF total > 0 THEN IsRatio(m.success_rate, m.success_count, total)
              ELSE m.success_rate.num = 0
           /\ IF calc.test_duration > 0
              THEN IsRatio(m.throughput_rps, total, calc.test_duration)
              ELSE m.throughput_rps.num = 0

\* the metrics of 101 samples were derived over a positive duration: the 95th
\* and the 99th percentile are below the maximum, and there were failures
C32_Witness ==
    /\ calc.op = "derived"
    /\ Len(calc.metrics.response_times) = 101
    /\ calc.metrics.p95_response_time < calc.metrics.p99_response_time
    /\ calc.metrics.p99_response_time < calc.metrics.max_response_time
    /\ calc.metrics.failure_count > 0
    /\ calc.test_duration > 0


----------------------------------------------------------------------------
(* C33 *)

\* the score of the claim: 100 less the three deductions
ClaimedGradeScore(m, cfg) ==
    100
    - (IF m.avg_response_time.num > cfg.max_response_time_ms * m.avg_response_time.den
       THEN 20
       ELSE IF 10 * m.avg_response_time.num
                  > 8 * cfg.max_response_time_ms * m.avg_response_time.den
       THEN 10 ELSE 0)
    - (IF 100 * m.success_rate.num < cfg.min_success_rate * m.success_rate.den THEN 30
       ELSE IF 100 * m.success_rate.num < 98 * m.success_rate.den THEN 15 ELSE 0)
    - (IF 2 * m.p95_response_time > 3 * cfg.max_response_time_ms THEN 15 ELSE 0)

\* the grade of a score
ClaimedGrade(score) ==
    CASE score >= 90 -> "A"
      [] score >= 80 /\ score < 90 -> "B"
      [] score >= 70 /\ score < 80 -> "C"
      [] score >= 60 /\ score < 70 -> "D"
      [] score < 60 -> "F"

\* the grades from the worst to the best
GradeRank(grade) ==
    CASE grade = "F" -> 0 [] grade = "D" -> 1 [] grade = "C" -> 2
      [] grade = "B" -> 3 [] grade = "A" -> 4

\* the metrics in which the average response time and the 95th percentile
\* are at least, and the success rate is at most, those of m
WorseMetrics(m) ==
    {GradedFields(avg, rate, p95) : avg \in {a \in AvgResponseTimes :
                                                a * m.avg_response_time.den
                                                   >= m.avg_response_time.num},
                                    rate \in {r \in SuccessRateValues :
                                                 r * m.success_rate.den
                                                    <= 100 * m.success_rate.num},
                                    p95 \in {p \in P95ResponseTimes :
                                                p >= m.p95_response_time}}

\* C33: the grade is that of the score 100, less 20 if the average response
\* time exceeds the threshold else less 10 if it exceeds 80% of it, less 30 if
\* the success rate is below the configured minimum else less 15 if below
\* 0.98, less 15 if p95 exceeds 1.5 times the threshold, with score >= 90 A,
\* >= 80 B, >= 70 C, >= 60 D, else F: every metrics record gets exactly one
\* grade, and metrics that are worse in any of the three never get a better
\* grade.
C33_Grade ==
    calc.op = "graded" =>
        /\ calc.grade \in {"A", "B", "C", "D", "F"}
        /\ calc.grade = ClaimedGrade(ClaimedGradeScore(calc.metrics, calc.config))
        /\ \A worse \in WorseMetrics(calc.metrics) :
              GradeRank(calculate_performance_grade(worse, calc.config))
                 <= GradeRank(calc.grade)

\* metrics with a success rate between the minimum and 0.98 and an average
\* response time above the threshold were graded D, and there are worse
\* metrics
C33_Witness ==
    /\ calc.op = "graded"
    /\ calc.grade = "D"
    /\ calc.metrics.success_rate = Fraction(97, 100)
    /\ calc.config.min_success_rate = 95
    /\ calc.metrics.avg_response_time = Fraction(2001, 1)
    /\ Cardinality(WorseMetrics(calc.metrics)) > 1


----------------------------------------------------------------------------
(* C34 *)

\* the sum of i * samples[i + 1] over the sample index i = 0 .. n - 1
RECURSIVE IndexedSum(_, _)
IndexedSum(samples, i) ==
    IF i > Len(samples) THEN 0 ELSE (i - 1) * samples[i] + IndexedSum(samples, i + 1)

\* the sum of the squares of 0 .. n - 1
RECURSIVE SquareSum(_)
SquareSum(n) == IF n = 0 THEN 0 ELSE (n - 1) * (n - 1) + SquareSum(n - 1)

\* numerator and denominator of the least-squares slope of the samples over
\* their index: n * sum(x * y) - sum(x) * sum(y) over n * sum(x * x) - sum(x)^2
SlopeNum(samples) ==
    Len(samples) * IndexedSum(samples, 1)
        - ((Len(samples) * (Len(samples) - 1)) \div 2) * SeqSum(samples)

SlopeDen(samples) ==
    Len(samples) * SquareSum(Len(samples))
        - ((Len(samples) * (Len(samples) - 1)) \div 2)
              * ((Len(samples) * (Len(samples) - 1)) \div 2)

----------------------------------------------------------------------------
(* C35 *)

\* C35: after cleanup() returns, every session that a passing connectivity
\* check opened since the previous cleanup has been closed, also when
\* connectivity passed more than once for the same server, and the toolkit
\* cache is empty.
C35_CleanupClosesSessions ==
    (returned.op = "cleanup" /\ returned.completion.kind = "return") =>
        /\ active_toolkits = EmptyDict
        /\ open_sessions = {}


----------------------------------------------------------------------------
(* C36 *)

\* the identifiers the returned issues carry, their related issues included
AccountedIds ==
    UNION {{detected.issues[j].issue_id}
              \cup {detected.issues[j].related_issues[r] :
                       r \in 1..Len(detected.issues[j].related_issues)} :
           j \in 1..Len(detected.issues)}

\* C36: no failure is dropped: for every result of status failed or error
\* given to analyze_test_failures at least one candidate issue is created from
\* it, and the returned issues, with their related issues, name a candidate
\* of every such result.
C36_NoFailureDropped ==
    \A k \in 1..Len(detected.results) :
        detected.results[k].status \in {"failed", "error"} =>
            \E j \in 1..Len(detected.candidates) :
                /\ detected.candidates[j].test_name = detected.results[k].test_name
                /\ detected.candidates[j].issue_id \in AccountedIds


----------------------------------------------------------------------------
(* C37 *)

\* the test names of the checks the tester runs for server s
CheckNamesOf(s) ==
    {ConnectivityTestName(s), DiscoveryTestName(s)}
    \cup {ExecutionTestName(s, tool) : tool \in ToolNames}

\* C37: every issue derived from the result of a check that ran for server S
\* has server_name S, for every configured server name, names with an
\* underscore included; so issues of two servers never share a group key.
C37_IssueServerName ==
    \A j \in 1..Len(detected.candidates) : \A s \in {S1, S2} :
        detected.candidates[j].test_name \in CheckNamesOf(s) =>
            detected.candidates[j].server_name = s


----------------------------------------------------------------------------
(* C38 *)

\* C38: on every return path of test_resource_usage (passed, failed, skipped,
\* error) the sampler the test started has been stopped and its task has
\* ended.
C38_SamplerStopped ==
    resource.pc = "returned" =>
        /\ ~monitor.monitoring
        /\ monitor.monitor_task = "done"


----------------------------------------------------------------------------
(* C39 *)

\* C39: every connector a load test opened is closed before the test
\* returns, so no session is open between two load tests and the number of
\* open sessions does not grow from one escalation level to the next.
C39_SessionsClosed ==
    load.pc \in {"none", "returned"} => load.sessions = 0


----------------------------------------------------------------------------
(* C40 *)

\* C40: run_comprehensive_test_suite runs no check against a server that is
\* disabled in the configuration, whether it is called without a name or
\* with that server's name: every suite it returns is the suite of an
\* enabled server; called with a name that is not configured it returns an
\* empty dict.
C40_NoDisabledServerChecked ==
    (returned.op = "run_suite" /\ returned.completion.kind = "return") =>
        /\ DOMAIN returned.completion.value \subseteq EnabledServers
        /\ returned.server \notin DOMAIN config.mcp_servers \cup {<<>>} =>
              returned.completion.value = EmptyDict

====
